---- MODULE Spec2Model ----
(***************************************************************************)
(* Model of the recovery installer core (install.cpp) and of the post-boot *)
(* partition verifier (update_verifier/update_verifier.cpp).               *)
(*                                                                         *)
(* Text is modelled as a sequence of tokens.  A token is a one-character   *)
(* string ("A", "=", " ", "\n", a digit) or, for the fixed words of the    *)
(* formats (metadata keys, command names, log prefixes), the whole word.   *)
(***************************************************************************)
EXTENDS Integers, Sequences, FiniteSets, TLC

(***************************************************************************)
(* Bounds of the model.                                                    *)
(***************************************************************************)
\* post-timestamp / ro.build.date.utc values range over 1..MaxTs
MaxTs == 3
\* the child writes at most MaxLines lines on the status pipe
MaxLines == 2
\* retry_count is 0 or MaxRetry
MaxRetry == 1
\* time_total is 0 or MaxTime
MaxTime == 1
\* block numbers of a care-map range range over 0..MaxBlock
MaxBlock == 2

(***************************************************************************)
(* Text helpers (android-base/strings.h as used by the sources).           *)
(***************************************************************************)
NL == "\n"

Digits == <<"0", "1", "2", "3", "4", "5", "6", "7", "8", "9">>

IsDigit(c) == \E i \in 1..10 : Digits[i] = c

DigitVal(c) == (CHOOSE i \in 1..10 : Digits[i] = c) - 1

\* isspace() over the alphabet of the model
IsSpace(c) == c \in {" ", "\n", "\r", "\t"}

\* std::string::find(c): index of the first occurrence, 0 for npos
Find(s, c) ==
    IF \E i \in 1..Len(s) : s[i] = c
    THEN CHOOSE i \in 1..Len(s) : s[i] = c /\ \A j \in 1..(i - 1) : s[j] # c
    ELSE 0

RECURSIVE Split(_, _)
\* android::base::Split: cut at every delimiter, empty pieces are kept
Split(s, sep) ==
    LET found == Find(s, sep)
    IN  IF found = 0 THEN <<s>>
        ELSE <<SubSeq(s, 1, found - 1)>> \o Split(SubSeq(s, found + 1, Len(s)), sep)

RECURSIVE Join(_, _)
\* android::base::Join: the pieces with the separator between them
Join(pieces, sep) ==
    IF Len(pieces) = 0 THEN <<>>
    ELSE IF Len(pieces) = 1 THEN pieces[1]
    ELSE pieces[1] \o <<sep>> \o Join(Tail(pieces), sep)

RECURSIVE TrimLeft(_)
TrimLeft(s) ==
    IF Len(s) > 0 /\ IsSpace(s[1]) THEN TrimLeft(Tail(s)) ELSE s

RECURSIVE TrimRight(_)
TrimRight(s) ==
    IF Len(s) > 0 /\ IsSpace(s[Len(s)]) THEN TrimRight(SubSeq(s, 1, Len(s) - 1)) ELSE s

\* android::base::Trim
Trim(s) == TrimRight(TrimLeft(s))

StartsWith(s, prefix) ==
    Len(s) >= Len(prefix) /\ SubSeq(s, 1, Len(prefix)) = prefix

RECURSIVE DecStr(_)
\* std::to_string / "%d" of a natural number
DecStr(n) ==
    IF n < 10 THEN <<Digits[n + 1]>> ELSE DecStr(n \div 10) \o <<Digits[(n % 10) + 1]>>

(***************************************************************************)
(* Signed 64-bit integers.  The model checker's integers are narrower      *)
(* than int64_t, so a value is kept as sign and magnitude, the magnitude a *)
(* sequence of decimal digits without leading zeros (<<>> is zero).        *)
(***************************************************************************)
RECURSIVE StripZeros(_)
StripZeros(d) == IF Len(d) > 0 /\ d[1] = "0" THEN StripZeros(Tail(d)) ELSE d

RECURSIVE LexLess(_, _)
LexLess(a, b) ==
    IF Len(a) = 0 THEN FALSE
    ELSE IF DigitVal(a[1]) # DigitVal(b[1]) THEN DigitVal(a[1]) < DigitVal(b[1])
    ELSE LexLess(Tail(a), Tail(b))

MagLess(a, b) ==
    \/ Len(a) < Len(b)
    \/ Len(a) = Len(b) /\ LexLess(a, b)

\* 9223372036854775807 and 9223372036854775808
Int64MaxMag ==
    <<"9","2","2","3","3","7","2","0","3","6","8","5","4","7","7","5","8","0","7">>

Int64MinMag ==
    <<"9","2","2","3","3","7","2","0","3","6","8","5","4","7","7","5","8","0","8">>

\* std::numeric_limits<int64_t>::max()
INT64_MAX == [neg |-> FALSE, mag |-> Int64MaxMag]

\* a < b on int64_t
Int64Less(a, b) ==
    IF a.neg /\ ~b.neg THEN TRUE
    ELSE IF ~a.neg /\ b.neg THEN FALSE
    ELSE IF a.neg THEN MagLess(b.mag, a.mag)
    ELSE MagLess(a.mag, b.mag)

\* android::base::ParseInt(s, &int64): strtoll skips leading white space,
\* takes an optional sign and the digits; the parse fails when there is no
\* digit, when anything follows the digits, or when the value is out of range.
ParseInt(s) ==
    LET t == TrimLeft(s)
        signed == Len(t) > 0 /\ t[1] \in {"-", "+"}
        neg == Len(t) > 0 /\ t[1] = "-"
        d == IF signed THEN Tail(t) ELSE t
        allDigits == Len(d) > 0 /\ \A i \in 1..Len(d) : IsDigit(d[i])
        mag == StripZeros(d)
        inRange == IF neg THEN ~MagLess(Int64MinMag, mag) ELSE ~MagLess(Int64MaxMag, mag)
    IN  IF allDigits /\ inRange
        THEN [ok |-> TRUE, val |-> [neg |-> neg /\ mag # <<>>, mag |-> mag]]
        ELSE [ok |-> FALSE, val |-> [neg |-> FALSE, mag |-> <<>>]]

\* property_get_int64(key, default): the default when the property is
\* absent or does not parse
property_get_int64(value, default_value) ==
    IF value = <<>> \/ ~ParseInt(value).ok THEN default_value ELSE ParseInt(value).val

(***************************************************************************)
(* Install results (install.h) and the fixed words of the formats.         *)
(***************************************************************************)
INSTALL_SUCCESS == "INSTALL_SUCCESS"
INSTALL_ERROR == "INSTALL_ERROR"
INSTALL_CORRUPT == "INSTALL_CORRUPT"
INSTALL_RETRY == "INSTALL_RETRY"

\* what "no result yet" looks like in the model
NoResult == "none"


(***************************************************************************)
(* The update package (the opened zip archive) and the runtime properties. *)
(*                                                                         *)
(* zip is a record:                                                        *)
(*   meta        state of the entry META-INF/com/android/metadata:         *)
(*               "ok", "missing" (FindEntry fails) or "unreadable"         *)
(*               (ExtractToMemory fails)                                   *)
(*   metadata_str  the text of that entry                                  *)
(*   payload_properties  state of payload_properties.txt, same three values*)
(*   payload     TRUE when payload.bin is in the archive                   *)
(*   update_binary  state of META-INF/com/google/android/update-binary     *)
(* props is a record of the properties ro.product.device, ro.serialno,     *)
(* ro.build.version.incremental, ro.build.fingerprint, ro.build.date.utc;  *)
(* an absent property is the empty text.                                   *)
(***************************************************************************)
K_PRE_DEVICE == "pre-device"
K_SERIALNO == "serialno"
K_OTA_TYPE == "ota-type"
K_PRE_BUILD_INCREMENTAL == "pre-build-incremental"
K_PRE_BUILD == "pre-build"
K_POST_TIMESTAMP == "post-timestamp"
K_OTA_DOWNGRADE == "ota-downgrade"
K_POST_BUILD_INCREMENTAL == "post-build-incremental"

GateKeys ==
    <<K_PRE_DEVICE, K_SERIALNO, K_OTA_TYPE, K_PRE_BUILD_INCREMENTAL, K_PRE_BUILD,
      K_POST_TIMESTAMP, K_OTA_DOWNGRADE>>

AB == <<"A", "B">>
YES == <<"y", "e", "s">>

RECURSIVE MetadataMap(_)
\* install.cpp:146-152: every line with an '=' sets metadata[key] = value,
\* a later line overwriting an earlier one
MetadataMap(lines) ==
    IF Len(lines) = 0 THEN [k \in {} |-> <<>>]
    ELSE LET line == lines[Len(lines)]
             eq == Find(line, "=")
             before == MetadataMap(SubSeq(lines, 1, Len(lines) - 1))
         IN  IF eq # 0
             THEN (SubSeq(line, 1, eq - 1) :> SubSeq(line, eq + 1, Len(line))) @@ before
             ELSE before

\* std::map::operator[]: the empty text for a key that is not there
MetaGet(metadata, key) ==
    IF <<key>> \in DOMAIN metadata THEN metadata[<<key>>] ELSE <<>>

\* read_metadata_from_package
read_metadata_from_package(z) == z.meta = "ok"

\* The messages check_newer_ab_build logs, one per failing check
LOG_NONE == "no error"
LOG_METADATA == "Failed to read metadata"
LOG_PRODUCT == "Package is for product"
LOG_SERIAL == "Package is for serial"
LOG_NOT_AB == "Package is not A/B"
LOG_SOURCE_INCREMENTAL == "Package is for source build (incremental)"
LOG_SOURCE_FINGERPRINT == "Package is for source build (fingerprint)"
LOG_OLDER == "Update package is older than the current build"
LOG_NO_PRE_BUILD == "Downgrade package must have a pre-build version set"
LOG_NO_PROPERTIES == "Can't find payload_properties.txt"
LOG_BAD_PROPERTIES == "Can't extract payload_properties.txt"
LOG_NO_PAYLOAD == "Can't find payload.bin"
LOG_NO_BINARY == "no update-binary"
LOG_CANT_MAKE == "Can't make /tmp/update_binary"
LOG_CANT_COPY == "Can't copy update-binary"

\* IsDowngrade with <= in place of <
IsDowngrade_OrEqual(metadata, p) ==
    LET build_timestamp == property_get_int64(p.date_utc, INT64_MAX)
        post == MetaGet(metadata, K_POST_TIMESTAMP)
        parsed == ParseInt(post)
    IN  \/ post = <<>>
        \/ ~parsed.ok
        \/ ~Int64Less(build_timestamp, parsed.val)

\* install.cpp:192-212: TRUE when the downgrade branch is entered
IsDowngrade(metadata, p) ==
    LET build_timestamp == property_get_int64(p.date_utc, INT64_MAX)
        post == MetaGet(metadata, K_POST_TIMESTAMP)
        parsed == ParseInt(post)
    IN  \/ post = <<>>
        \/ ~parsed.ok
        \/ Int64Less(parsed.val, build_timestamp)

\* check_newer_ab_build without the comparison of serialno
check_newer_ab_build_NoSerial(z, p) ==
    IF ~read_metadata_from_package(z)
    THEN [ret |-> INSTALL_CORRUPT, log |-> LOG_METADATA]
    ELSE
    LET metadata == MetadataMap(Split(z.metadata_str, NL))
        pkg_device == MetaGet(metadata, K_PRE_DEVICE)
        pkg_pre_build == MetaGet(metadata, K_PRE_BUILD_INCREMENTAL)
        pkg_pre_build_fingerprint == MetaGet(metadata, K_PRE_BUILD)
    IN  IF pkg_device # p.device \/ pkg_device = <<>>
        THEN [ret |-> INSTALL_ERROR, log |-> LOG_PRODUCT]
        ELSE IF MetaGet(metadata, K_OTA_TYPE) # AB
        THEN [ret |-> INSTALL_ERROR, log |-> LOG_NOT_AB]
        ELSE IF pkg_pre_build # <<>> /\ pkg_pre_build # p.incremental
        THEN [ret |-> INSTALL_ERROR, log |-> LOG_SOURCE_INCREMENTAL]
        ELSE IF pkg_pre_build_fingerprint # <<>> /\ pkg_pre_build_fingerprint # p.fingerprint
        THEN [ret |-> INSTALL_ERROR, log |-> LOG_SOURCE_FINGERPRINT]
        ELSE IF IsDowngrade(metadata, p) /\ MetaGet(metadata, K_OTA_DOWNGRADE) # YES
        THEN [ret |-> INSTALL_ERROR, log |-> LOG_OLDER]
        ELSE IF IsDowngrade(metadata, p) /\ pkg_pre_build_fingerprint = <<>>
        THEN [ret |-> INSTALL_ERROR, log |-> LOG_NO_PRE_BUILD]
        ELSE [ret |-> INSTALL_SUCCESS, log |-> LOG_NONE]

\* check_newer_ab_build: the value returned and the error it logged
check_newer_ab_build(z, p) ==
    IF ~read_metadata_from_package(z)
    THEN [ret |-> INSTALL_CORRUPT, log |-> LOG_METADATA]
    ELSE
    LET metadata == MetadataMap(Split(z.metadata_str, NL))
        pkg_device == MetaGet(metadata, K_PRE_DEVICE)
        pkg_serial_no == MetaGet(metadata, K_SERIALNO)
        pkg_pre_build == MetaGet(metadata, K_PRE_BUILD_INCREMENTAL)
        pkg_pre_build_fingerprint == MetaGet(metadata, K_PRE_BUILD)
    IN  IF pkg_device # p.device \/ pkg_device = <<>>
        THEN [ret |-> INSTALL_ERROR, log |-> LOG_PRODUCT]
        ELSE IF pkg_serial_no # <<>> /\ pkg_serial_no # p.serialno
        THEN [ret |-> INSTALL_ERROR, log |-> LOG_SERIAL]
        ELSE IF MetaGet(metadata, K_OTA_TYPE) # AB
        THEN [ret |-> INSTALL_ERROR, log |-> LOG_NOT_AB]
        ELSE IF pkg_pre_build # <<>> /\ pkg_pre_build # p.incremental
        THEN [ret |-> INSTALL_ERROR, log |-> LOG_SOURCE_INCREMENTAL]
        ELSE IF pkg_pre_build_fingerprint # <<>> /\ pkg_pre_build_fingerprint # p.fingerprint
        THEN [ret |-> INSTALL_ERROR, log |-> LOG_SOURCE_FINGERPRINT]
        ELSE IF IsDowngrade(metadata, p) /\ MetaGet(metadata, K_OTA_DOWNGRADE) # YES
        THEN [ret |-> INSTALL_ERROR, log |-> LOG_OLDER]
        ELSE IF IsDowngrade(metadata, p) /\ pkg_pre_build_fingerprint = <<>>
        THEN [ret |-> INSTALL_ERROR, log |-> LOG_NO_PRE_BUILD]
        ELSE [ret |-> INSTALL_SUCCESS, log |-> LOG_NONE]

\* update_binary_command that looks the payload entries up before the gate
update_binary_command_ab_PayloadFirst(z, p) ==
    IF z.payload_properties = "missing"
    THEN [ret |-> INSTALL_CORRUPT, log |-> LOG_NO_PROPERTIES]
    ELSE IF z.payload_properties = "unreadable"
    THEN [ret |-> INSTALL_CORRUPT, log |-> LOG_BAD_PROPERTIES]
    ELSE IF ~z.payload
    THEN [ret |-> INSTALL_CORRUPT, log |-> LOG_NO_PAYLOAD]
    ELSE check_newer_ab_build(z, p)

\* update_binary_command, A/B build (AB_OTA_UPDATER defined)
update_binary_command_ab(z, p) ==
    LET gate == check_newer_ab_build(z, p)
    IN  IF gate.ret # INSTALL_SUCCESS THEN gate
        ELSE IF z.payload_properties = "missing"
        THEN [ret |-> INSTALL_CORRUPT, log |-> LOG_NO_PROPERTIES]
        ELSE IF z.payload_properties = "unreadable"
        THEN [ret |-> INSTALL_CORRUPT, log |-> LOG_BAD_PROPERTIES]
        ELSE IF ~z.payload
        THEN [ret |-> INSTALL_CORRUPT, log |-> LOG_NO_PAYLOAD]
        ELSE [ret |-> INSTALL_SUCCESS, log |-> LOG_NONE]

\* update_binary_command, legacy build (AB_OTA_UPDATER not defined);
\* creat_ok is the outcome of creat("/tmp/update_binary")
update_binary_command_legacy(z, creat_ok) ==
    IF z.update_binary = "missing"
    THEN [ret |-> INSTALL_CORRUPT, log |-> LOG_NO_BINARY]
    ELSE IF ~creat_ok
    THEN [ret |-> INSTALL_ERROR, log |-> LOG_CANT_MAKE]
    ELSE IF z.update_binary = "unreadable"
    THEN [ret |-> INSTALL_ERROR, log |-> LOG_CANT_COPY]
    ELSE [ret |-> INSTALL_SUCCESS, log |-> LOG_NONE]

(***************************************************************************)
(* State.                                                                  *)
(*                                                                         *)
(* Installer (install.cpp):                                                *)
(*   AB_OTA_UPDATER  the build flavour: TRUE when the macro is defined     *)
(*   zip, props      the package and the runtime properties                *)
(*   args            install_package's arguments: path, retry_count        *)
(*   pc              where the installer is                                *)
(*   steps           the steps done so far, each with its outcome          *)
(*   result          really_install_package's result (INSTALL_ERROR when   *)
(*                   setup_install_mounts failed)                          *)
(*   returned        the value install_package returned                    *)
(*   wipe_cache      the caller's *wipe_cache                              *)
(*   retry_update    the local of try_update_binary                        *)
(*   log_buffer      the lines collected for the install log               *)
(*   ui              the calls made on the RecoveryUI, in order            *)
(*   res             the resources: the mapping, the archive handle and    *)
(*                   the parent's two pipe descriptors                     *)
(*   child           the update binary: its state, the lines it wrote and  *)
(*                   its wait status                                       *)
(*   pipe            the lines written and not yet read                    *)
(*   install_log     log_content, the state of install_file, time_total    *)
(* A/B gate applied as a function:                                         *)
(*   gate            position, the outcomes of check_newer_ab_build and of *)
(*                   update_binary_command, and the field changed last     *)
(* Verifier (update_verifier.cpp):                                         *)
(*   ver             the verifier's state                                  *)
(***************************************************************************)
VARIABLES AB_OTA_UPDATER, zip, props, args, pc, steps, result, returned,
          wipe_cache, retry_update, log_buffer, ui, res, child, pipe,
          install_log, gate, ver

pkgVars == <<AB_OTA_UPDATER, zip, props, args>>

instVars ==
    <<pc, steps, result, returned, wipe_cache, retry_update, log_buffer, ui, res,
      child, pipe, install_log>>

vars == <<pkgVars, instVars, gate, ver>>

(***************************************************************************)
(* Packages and properties the specifications draw from.                   *)
(***************************************************************************)
DEV_A == <<"A">>
DEV_B == <<"B">>
SERIAL_1 == <<"S", "1">>
SERIAL_2 == <<"S", "2">>
INCR_1 == <<"1", "0", "0">>
INCR_2 == <<"1", "0", "1">>
FP_1 == <<"f", "1">>
FP_2 == <<"f", "2">>
OTA_BLOCK == <<"B", "L", "O", "C", "K">>
NO_TEXT == <<"n", "o">>
UNPARSABLE == <<"x">>

\* "AB" with a space after it, and the device with a space before it
AB_SPACE == AB \o <<" ">>
DEV_A_SPACE == <<" ">> \o DEV_A

\* marks a key that has no line in the metadata
Absent == <<"<absent>">>

\* small timestamps, and the largest int64_t
Timestamps == {DecStr(n) : n \in 1..MaxTs} \cup {Int64MaxMag}

\* the values each metadata key is given
FieldValues(key) ==
    IF key = K_PRE_DEVICE THEN {Absent, DEV_A, DEV_B, DEV_A_SPACE}
    ELSE IF key = K_SERIALNO THEN {Absent, SERIAL_1, SERIAL_2}
    ELSE IF key = K_OTA_TYPE THEN {Absent, AB, OTA_BLOCK, AB_SPACE}
    ELSE IF key = K_PRE_BUILD_INCREMENTAL THEN {Absent, INCR_1, INCR_2}
    ELSE IF key = K_PRE_BUILD THEN {Absent, FP_1, FP_2}
    ELSE IF key = K_POST_TIMESTAMP THEN {Absent, UNPARSABLE} \cup Timestamps
    ELSE IF key = K_OTA_DOWNGRADE THEN {Absent, YES, NO_TEXT}
    ELSE {Absent}

\* every assignment of values to the keys the gate reads
FieldChoices ==
    {   (K_PRE_DEVICE :> dev) @@ (K_SERIALNO :> ser) @@ (K_OTA_TYPE :> typ)
        @@ (K_PRE_BUILD_INCREMENTAL :> inc) @@ (K_PRE_BUILD :> fp)
        @@ (K_POST_TIMESTAMP :> ts) @@ (K_OTA_DOWNGRADE :> dg) :
        dev \in FieldValues(K_PRE_DEVICE), ser \in FieldValues(K_SERIALNO),
        typ \in FieldValues(K_OTA_TYPE), inc \in FieldValues(K_PRE_BUILD_INCREMENTAL),
        fp \in FieldValues(K_PRE_BUILD), ts \in FieldValues(K_POST_TIMESTAMP),
        dg \in FieldValues(K_OTA_DOWNGRADE) }

RECURSIVE MetadataLines(_, _)
\* the lines "key=value" of the keys, in the order of keys, that f gives a value
MetadataLines(f, keys) ==
    IF Len(keys) = 0 THEN <<>>
    ELSE (IF f[keys[1]] = Absent THEN <<>> ELSE <<<<keys[1], "=">> \o f[keys[1]]>>)
         \o MetadataLines(f, Tail(keys))

\* the metadata text: one line per key, each ended by a newline
MetadataText(f, keys) ==
    LET lines == MetadataLines(f, keys)
    IN  IF Len(lines) = 0 THEN <<>> ELSE Join(lines, NL) \o <<NL>>

RuntimeProps ==
    [device : {DEV_A, <<>>}, serialno : {SERIAL_1}, incremental : {INCR_1},
     fingerprint : {FP_1}, date_utc : {<<>>} \cup {DecStr(2)}]

EntryStates == {"ok", "missing", "unreadable"}

\* payload_properties.txt and payload.bin: both there, or one of them failing
PayloadStates ==
    {<<"ok", TRUE>>, <<"missing", TRUE>>, <<"unreadable", TRUE>>, <<"ok", FALSE>>}

\* the key of a metadata line, <<>> for a line without '='
LineKey(line) ==
    IF Find(line, "=") = 0 THEN <<>> ELSE SubSeq(line, 1, Find(line, "=") - 1)

\* the metadata text with the line of one key replaced (removed for Absent)
SetField(str, key, v) ==
    LET kept == SelectSeq(Split(str, NL), LAMBDA l : LineKey(l) # <<key>>)
    IN  IF v = Absent THEN Join(kept, NL)
        ELSE Join(<<<<key, "=">> \o v>> \o kept, NL)

(***************************************************************************)
(* The A/B gate applied to every package and property set of the bounds,   *)
(* and applied again after one field of an accepted package was changed.   *)
(***************************************************************************)
IdleInstaller ==
    /\ pc = "idle"
    /\ steps = <<>>
    /\ result = NoResult
    /\ returned = NoResult
    /\ wipe_cache = FALSE
    /\ retry_update = FALSE
    /\ log_buffer = <<>>
    /\ ui = <<>>
    /\ res = [map |-> "unmapped", releases |-> 0, archive |-> "unopened",
              closes |-> 0, closed_unopened |-> FALSE,
              pipe_r |-> "none", pipe_w |-> "none", r_closes |-> 0, w_closes |-> 0]
    /\ child = [state |-> "none", wrote |-> <<>>, status |-> "none", closed |-> <<>>]
    /\ pipe = <<>>
    /\ install_log = [content |-> <<>>, file |-> "unwritten", time_total |-> 0]

IdleGate == gate = [pc |-> "idle", out |-> [ret |-> NoResult, log |-> LOG_NONE],
                    cmd |-> [ret |-> NoResult, log |-> LOG_NONE], injected |-> "none"]

IdleVerifier == ver = [pc |-> "idle"]


GateInit ==
    /\ AB_OTA_UPDATER = TRUE
    /\ \E f \in FieldChoices, m \in EntryStates, pl \in PayloadStates :
          \* the text of an entry that cannot be read is never seen
          /\ m # "ok" => \A k \in DOMAIN f : f[k] = Absent
          /\ zip = [meta |-> m, metadata_str |-> MetadataText(f, GateKeys),
                    payload_properties |-> pl[1], payload |-> pl[2],
                    update_binary |-> "missing"]
    /\ props \in RuntimeProps
    /\ args = [path |-> <<"/", "p">>, retry_count |-> 0]
    /\ IdleInstaller
    /\ gate = [pc |-> "input", out |-> [ret |-> NoResult, log |-> LOG_NONE],
               cmd |-> [ret |-> NoResult, log |-> LOG_NONE], injected |-> "none"]
    /\ IdleVerifier

\* update_binary_command on the package
GateApply ==
    /\ gate.pc = "input"
    /\ gate' = [pc |-> "applied", out |-> check_newer_ab_build(zip, props),
                cmd |-> update_binary_command_ab(zip, props), injected |-> "none"]
    /\ UNCHANGED <<pkgVars, instVars, ver>>

\* a value that makes the predicate of the key fail
Violating(key, v, p) ==
    \/ key = K_PRE_DEVICE /\ (v # p.device \/ v = Absent)
    \/ key = K_SERIALNO /\ v # Absent /\ v # p.serialno
    \/ key = K_OTA_TYPE /\ v # AB
    \/ key = K_PRE_BUILD_INCREMENTAL /\ v # Absent /\ v # p.incremental
    \/ key = K_PRE_BUILD /\ v # Absent /\ v # p.fingerprint

\* one field of an accepted package is changed to a violating value and the
\* gate is applied to the changed package
GateInject ==
    /\ gate.pc = "applied"
    /\ gate.out.ret = INSTALL_SUCCESS
    /\ \E i \in 1..5 : \E v \in FieldValues(GateKeys[i]) :
          /\ Violating(GateKeys[i], v, props)
          /\ zip' = [zip EXCEPT !.metadata_str = SetField(@, GateKeys[i], v)]
          /\ gate' = [pc |-> "injected", out |-> check_newer_ab_build(zip', props),
                      cmd |-> update_binary_command_ab(zip', props),
                      injected |-> GateKeys[i]]
    /\ UNCHANGED <<AB_OTA_UPDATER, props, args, instVars, ver>>

GateNext == GateApply \/ GateInject

GateSpec == GateInit /\ [][GateNext]_vars

(***************************************************************************)
(* The gate's predicates as section 4.2 of the specification states them,  *)
(* over the fields of the package's metadata.                              *)
(***************************************************************************)
\* the metadata as the gate parses it
PkgMetadata == MetadataMap(Split(zip.metadata_str, NL))

\* the number a timestamp text of the bounds stands for, 0 when it is none
TsNumber(v) ==
    IF \E n \in 1..(MaxTs + 1) : DecStr(n) = v
    THEN CHOOSE n \in 1..(MaxTs + 1) : DecStr(n) = v
    ELSE 0

\* the place of a timestamp text among the timestamps: the largest int64_t
\* after all the small ones, 0 for a text that is no timestamp
TsRank(v) == IF v = Int64MaxMag THEN MaxTs + 2 ELSE TsNumber(v)

\* the runtime timestamp: the largest int64_t when the property is absent
RuntimeRank == IF props.date_utc = <<>> THEN TsRank(Int64MaxMag) ELSE TsRank(props.date_utc)

\* post-timestamp missing, unparsable or strictly less than the runtime
\* timestamp
ClaimDowngrade(md) ==
    \/ TsRank(MetaGet(md, K_POST_TIMESTAMP)) = 0
    \/ TsRank(MetaGet(md, K_POST_TIMESTAMP)) < RuntimeRank

ClaimDowngradeAllowed(md) ==
    MetaGet(md, K_OTA_DOWNGRADE) = YES /\ MetaGet(md, K_PRE_BUILD) # <<>>

\* predicate i of the list holds
GatePredicate(md, i) ==
    IF i = 1 THEN zip.meta = "ok"
    ELSE IF i = 2 THEN MetaGet(md, K_PRE_DEVICE) # <<>>
                       /\ MetaGet(md, K_PRE_DEVICE) = props.device
    ELSE IF i = 3 THEN MetaGet(md, K_SERIALNO) = <<>>
                       \/ MetaGet(md, K_SERIALNO) = props.serialno
    ELSE IF i = 4 THEN MetaGet(md, K_OTA_TYPE) = AB
    ELSE IF i = 5 THEN MetaGet(md, K_PRE_BUILD_INCREMENTAL) = <<>>
                       \/ MetaGet(md, K_PRE_BUILD_INCREMENTAL) = props.incremental
    ELSE IF i = 6 THEN MetaGet(md, K_PRE_BUILD) = <<>>
                       \/ MetaGet(md, K_PRE_BUILD) = props.fingerprint
    ELSE ~ClaimDowngrade(md) \/ ClaimDowngradeAllowed(md)

\* the first predicate that fails, 0 when all hold
FirstFailing(md) ==
    IF \A i \in 1..7 : GatePredicate(md, i) THEN 0
    ELSE CHOOSE i \in 1..7 :
            ~GatePredicate(md, i) /\ \A j \in 1..(i - 1) : GatePredicate(md, j)

\* what the gate logs when predicate i is the one that fails
GateLogs(i) ==
    IF i = 1 THEN {LOG_METADATA}
    ELSE IF i = 2 THEN {LOG_PRODUCT}
    ELSE IF i = 3 THEN {LOG_SERIAL}
    ELSE IF i = 4 THEN {LOG_NOT_AB}
    ELSE IF i = 5 THEN {LOG_SOURCE_INCREMENTAL}
    ELSE IF i = 6 THEN {LOG_SOURCE_FINGERPRINT}
    ELSE {LOG_OLDER, LOG_NO_PRE_BUILD}

GateApplied == gate.pc \in {"applied", "injected"}

PayloadComplete == zip.payload_properties = "ok" /\ zip.payload

\* C5: the gate evaluates its predicates in the order metadata readable,
\* pre-device, serialno, ota-type, pre-build-incremental, pre-build, downgrade
\* and returns the result of the first that fails (CORRUPT for unreadable
\* metadata, ERROR for every other); the payload entries are consulted only
\* when every predicate holds, so a failing predicate yields its own result
\* whether or not payload.bin is there.
C5_GateOrder ==
    GateApplied =>
        LET ff == FirstFailing(PkgMetadata)
        IN  /\ ff = 0 =>
                 /\ gate.out.ret = INSTALL_SUCCESS
                 /\ gate.cmd.ret =
                       (IF PayloadComplete THEN INSTALL_SUCCESS ELSE INSTALL_CORRUPT)
            /\ ff # 0 =>
                 /\ gate.out.ret = (IF ff = 1 THEN INSTALL_CORRUPT ELSE INSTALL_ERROR)
                 /\ gate.out.log \in GateLogs(ff)
                 /\ gate.cmd = gate.out

\* a package that fails a gate predicate and lacks payload.bin got ERROR
C5_Witness ==
    /\ gate.pc = "applied"
    /\ ~zip.payload
    /\ gate.cmd.ret = INSTALL_ERROR
    /\ FirstFailing(PkgMetadata) = 4

\* C6: after exactly one field of an accepted package was changed so that it
\* violates its predicate, the gate returns ERROR.
C6_SingleViolationRejected ==
    gate.pc = "injected" => gate.out.ret = INSTALL_ERROR /\ gate.cmd.ret = INSTALL_ERROR

\* a non-empty serialno that differs from ro.serialno was injected
C6_Witness ==
    /\ gate.pc = "injected"
    /\ gate.injected = K_SERIALNO
    /\ gate.out.ret = INSTALL_ERROR
    /\ MetaGet(PkgMetadata, K_SERIALNO) = SERIAL_2
    /\ \A i \in {1, 2, 4, 5, 6, 7} : GatePredicate(PkgMetadata, i)

\* C7: with readable metadata, a package whose post-timestamp is missing,
\* unparsable or strictly less than the runtime timestamp is rejected with
\* ERROR unless ota-downgrade is "yes" and pre-build is non-empty, in which
\* case the downgrade check lets it pass; a package whose post-timestamp is
\* at least the runtime timestamp passes the downgrade check whatever
\* ota-downgrade and pre-build are.
C7_Downgrade ==
    (GateApplied /\ zip.meta = "ok") =>
        LET md == PkgMetadata
            earlier == \A i \in 2..6 : GatePredicate(md, i)
            down == ClaimDowngrade(md)
            allowed == ClaimDowngradeAllowed(md)
        IN  /\ (down /\ ~allowed) => gate.out.ret = INSTALL_ERROR
            /\ (earlier /\ down /\ allowed) => gate.out.ret = INSTALL_SUCCESS
            /\ (earlier /\ ~down) => gate.out.ret = INSTALL_SUCCESS

\* a package as old as the running build passed without ota-downgrade
C7_Witness ==
    /\ gate.pc = "applied"
    /\ gate.out.ret = INSTALL_SUCCESS
    /\ MetaGet(PkgMetadata, K_POST_TIMESTAMP) = props.date_utc
    /\ MetaGet(PkgMetadata, K_POST_TIMESTAMP) # <<>>
    /\ MetaGet(PkgMetadata, K_OTA_DOWNGRADE) # YES

\* the metadata with the white space around every value removed
TrimmedMetadata(md) == [k \in DOMAIN md |-> Trim(md[k])]

\* C14: the gate compares the metadata values without the white space
\* around them: with readable metadata its result is that of the first
\* predicate that fails on the trimmed values, so "ota-type=AB " counts as AB
\* and "pre-device= A" as A; a line without '=' is ignored and of the lines
\* of one key the last counts.
C14_ValuesTrimmed ==
    (GateApplied /\ zip.meta = "ok") =>
        LET ff == FirstFailing(TrimmedMetadata(PkgMetadata))
        IN  /\ ff = 0 => gate.out.ret = INSTALL_SUCCESS
            /\ ff # 0 => gate.out.ret = INSTALL_ERROR /\ gate.out.log \in GateLogs(ff)

\* the same for packages whose values have no white space around them
C14_ValuesTrimmedWhenWithoutSpace ==
    (GateApplied /\ zip.meta = "ok") =>
        LET md == PkgMetadata
            ff == FirstFailing(md)
        IN  TrimmedMetadata(md) = md =>
                /\ ff = 0 => gate.out.ret = INSTALL_SUCCESS
                /\ ff # 0 => gate.out.ret = INSTALL_ERROR /\ gate.out.log \in GateLogs(ff)

\* C15: when ro.build.date.utc is absent every post-timestamp that is an
\* int64_t, the largest included, is a downgrade: the package is rejected
\* with ERROR unless ota-downgrade is "yes" and pre-build is set.
C15_AbsentDateIsNewest ==
    (GateApplied /\ zip.meta = "ok" /\ props.date_utc = <<>>) =>
        LET md == PkgMetadata
        IN  (ParseInt(MetaGet(md, K_POST_TIMESTAMP)).ok /\ ~ClaimDowngradeAllowed(md))
                => gate.out.ret = INSTALL_ERROR

\* the same for every post-timestamp below the largest int64_t
C15_AbsentDateIsNewestBelowMax ==
    (GateApplied /\ zip.meta = "ok" /\ props.date_utc = <<>>) =>
        LET md == PkgMetadata
        IN  (/\ ParseInt(MetaGet(md, K_POST_TIMESTAMP)).ok
             /\ ParseInt(MetaGet(md, K_POST_TIMESTAMP)).val # INT64_MAX
             /\ ~ClaimDowngradeAllowed(md))
                => gate.out.ret = INSTALL_ERROR

(***************************************************************************)
(* The installer: install_package, really_install_package and              *)
(* try_update_binary, with the update binary as a second process.          *)
(***************************************************************************)
\* strtok's "no more tokens"
NULL == <<"<NULL>">>

RECURSIVE SkipDelims(_, _)
SkipDelims(s, delims) ==
    IF Len(s) > 0 /\ s[1] \in delims THEN SkipDelims(Tail(s), delims) ELSE s

RECURSIVE TokenLen(_, _)
TokenLen(s, delims) ==
    IF Len(s) = 0 \/ s[1] \in delims THEN 0 ELSE 1 + TokenLen(Tail(s), delims)

\* strtok: the next token of s and what is left of s after the delimiter
\* that ends the token; tok is NULL when s holds delimiters only
Strtok(s, delims) ==
    LET t == SkipDelims(s, delims)
        n == TokenLen(t, delims)
    IN  IF Len(t) = 0 THEN [tok |-> NULL, rest |-> <<>>]
        ELSE [tok |-> SubSeq(t, 1, n), rest |-> SubSeq(t, n + 2, Len(t))]

\* the lines the update binary may write on the status pipe
FRACTION == "0.5"
SECONDS == "10"

ChildLines ==
    { <<"progress", " ", FRACTION, " ", SECONDS, NL>>,
      <<"progress", " ", FRACTION, NL>>,
      <<"set_progress", " ", FRACTION, NL>>,
      <<"set_progress", NL>>,
      <<"ui_print", " ", "hi", " ", "all", NL>>,
      <<"ui_print", NL>>,
      <<"wipe_cache", NL>>,
      <<"clear_display", NL>>,
      <<"enable_reboot", NL>>,
      <<"retry_update", NL>>,
      <<"log", " ", "msg", " ", "1", NL>>,
      <<"log", NL>>,
      <<"frobnicate", NL>>,
      <<NL>> }

\* what a build may do where the source passes a null pointer to strtof,
\* strtol or std::string: fault, or go on with a value nobody chose
UBOutcomes == {"fault", "garbage"}
GARBAGE == "<garbage>"

NoEffect == [fault |-> FALSE, ui |-> <<>>, wipe |-> FALSE, retry |-> FALSE, log |-> <<>>]

\* LineEffect that takes a command it does not know for retry_update
LineEffect_UnknownRetries(buffer, ub) ==
    LET first == Strtok(buffer, {" ", NL})
        command == first.tok
    IN  IF command = NULL THEN NoEffect
        ELSE IF command = <<"progress">> THEN
            LET a1 == Strtok(first.rest, {" ", NL})
                a2 == Strtok(a1.rest, {" ", NL})
            IN  IF a1.tok = NULL \/ a2.tok = NULL
                THEN IF ub = "fault" THEN [NoEffect EXCEPT !.fault = TRUE]
                     ELSE [NoEffect EXCEPT !.ui = <<<<"ShowProgress", GARBAGE, GARBAGE>>>>]
                ELSE [NoEffect EXCEPT !.ui = <<<<"ShowProgress", a1.tok, a2.tok>>>>]
        ELSE IF command = <<"set_progress">> THEN
            LET a1 == Strtok(first.rest, {" ", NL})
            IN  IF a1.tok = NULL
                THEN IF ub = "fault" THEN [NoEffect EXCEPT !.fault = TRUE]
                     ELSE [NoEffect EXCEPT !.ui = <<<<"SetProgress", GARBAGE>>>>]
                ELSE [NoEffect EXCEPT !.ui = <<<<"SetProgress", a1.tok>>>>]
        ELSE IF command = <<"ui_print">> THEN
            LET str == Strtok(first.rest, {NL})
            IN  IF str.tok # NULL
                THEN [NoEffect EXCEPT !.ui = <<<<"PrintOnScreenOnly", str.tok>>>>]
                ELSE [NoEffect EXCEPT !.ui = <<<<"PrintOnScreenOnly", <<NL>>>>>>]
        ELSE IF command = <<"wipe_cache">> THEN [NoEffect EXCEPT !.wipe = TRUE]
        ELSE IF command = <<"clear_display">>
        THEN [NoEffect EXCEPT !.ui = <<<<"SetBackground", "NONE">>>>]
        ELSE IF command = <<"enable_reboot">>
        THEN [NoEffect EXCEPT !.ui = <<<<"SetEnableReboot", TRUE>>>>]
        ELSE IF command = <<"retry_update">> THEN [NoEffect EXCEPT !.retry = TRUE]
        ELSE IF command = <<"log">> THEN
            LET str == Strtok(first.rest, {NL})
            IN  IF str.tok = NULL
                THEN IF ub = "fault" THEN [NoEffect EXCEPT !.fault = TRUE]
                     ELSE [NoEffect EXCEPT !.log = <<<<GARBAGE>>>>]
                ELSE [NoEffect EXCEPT !.log = <<str.tok>>]
        ELSE [NoEffect EXCEPT !.retry = TRUE]

\* install.cpp:390-430: what one line read from the child does; ub is the
\* outcome of the undefined behaviour, if the line runs into any
LineEffect(buffer, ub) ==
    LET first == Strtok(buffer, {" ", NL})
        command == first.tok
    IN  IF command = NULL THEN NoEffect
        ELSE IF command = <<"progress">> THEN
            LET a1 == Strtok(first.rest, {" ", NL})
                a2 == Strtok(a1.rest, {" ", NL})
            IN  IF a1.tok = NULL \/ a2.tok = NULL
                THEN IF ub = "fault" THEN [NoEffect EXCEPT !.fault = TRUE]
                     ELSE [NoEffect EXCEPT !.ui = <<<<"ShowProgress", GARBAGE, GARBAGE>>>>]
                ELSE [NoEffect EXCEPT !.ui = <<<<"ShowProgress", a1.tok, a2.tok>>>>]
        ELSE IF command = <<"set_progress">> THEN
            LET a1 == Strtok(first.rest, {" ", NL})
            IN  IF a1.tok = NULL
                THEN IF ub = "fault" THEN [NoEffect EXCEPT !.fault = TRUE]
                     ELSE [NoEffect EXCEPT !.ui = <<<<"SetProgress", GARBAGE>>>>]
                ELSE [NoEffect EXCEPT !.ui = <<<<"SetProgress", a1.tok>>>>]
        ELSE IF command = <<"ui_print">> THEN
            LET str == Strtok(first.rest, {NL})
            IN  IF str.tok # NULL
                THEN [NoEffect EXCEPT !.ui = <<<<"PrintOnScreenOnly", str.tok>>>>]
                ELSE [NoEffect EXCEPT !.ui = <<<<"PrintOnScreenOnly", <<NL>>>>>>]
        ELSE IF command = <<"wipe_cache">> THEN [NoEffect EXCEPT !.wipe = TRUE]
        ELSE IF command = <<"clear_display">>
        THEN [NoEffect EXCEPT !.ui = <<<<"SetBackground", "NONE">>>>]
        ELSE IF command = <<"enable_reboot">>
        THEN [NoEffect EXCEPT !.ui = <<<<"SetEnableReboot", TRUE>>>>]
        ELSE IF command = <<"retry_update">> THEN [NoEffect EXCEPT !.retry = TRUE]
        ELSE IF command = <<"log">> THEN
            LET str == Strtok(first.rest, {NL})
            IN  IF str.tok = NULL
                THEN IF ub = "fault" THEN [NoEffect EXCEPT !.fault = TRUE]
                     ELSE [NoEffect EXCEPT !.log = <<<<GARBAGE>>>>]
                ELSE [NoEffect EXCEPT !.log = <<str.tok>>]
        ELSE NoEffect

\* install.cpp:436-444: the result of try_update_binary after waitpid
TerminalStatus(retry, status) ==
    IF retry THEN INSTALL_RETRY
    ELSE IF ~status.exited \/ status.code # 0 THEN INSTALL_ERROR
    ELSE INSTALL_SUCCESS

\* parse_build_number: the number after '=', or "-1"
parse_build_number(str) ==
    LET pos == Find(str, "=")
        parsed == ParseInt(Trim(SubSeq(str, pos + 1, Len(str))))
        IntMaxMag == <<"2","1","4","7","4","8","3","6","4","7">>
    IN  IF pos # 0 /\ parsed.ok /\ ~parsed.val.neg /\ ~MagLess(IntMaxMag, parsed.val.mag)
        THEN (IF parsed.val.mag = <<>> THEN <<"0">> ELSE parsed.val.mag)
        ELSE <<"-", "1">>

RECURSIVE SourceTargetLines(_)
\* install.cpp:108-124: the log lines for the lines of the metadata
SourceTargetLines(lines) ==
    IF Len(lines) = 0 THEN <<>>
    ELSE LET str == Trim(lines[1])
             n == parse_build_number(str)
         IN  (IF StartsWith(str, <<K_PRE_BUILD_INCREMENTAL>>)
              THEN (IF n # <<"-", "1">> THEN <<<<"source_build: ">> \o n>> ELSE <<>>)
              ELSE IF StartsWith(str, <<K_POST_BUILD_INCREMENTAL>>)
              THEN (IF n # <<"-", "1">> THEN <<<<"target_build: ">> \o n>> ELSE <<>>)
              ELSE <<>>)
             \o SourceTargetLines(Tail(lines))

\* read_source_target_build: what it appends to log_buffer
read_source_target_build(z) ==
    IF ~read_metadata_from_package(z) THEN <<>>
    ELSE SourceTargetLines(Split(z.metadata_str, NL))

\* the update_binary_command of the build
update_binary_command(ab, z, p, creat_ok) ==
    IF ab THEN update_binary_command_ab(z, p) ELSE update_binary_command_legacy(z, creat_ok)

\* error codes of error_code.h, as they are logged
kZipVerificationFailure == <<"error: ", "kZipVerificationFailure">>
kZipOpenFailure == <<"error: ", "kZipOpenFailure">>

WaitStatuses ==
    {[exited |-> TRUE, code |-> 0], [exited |-> TRUE, code |-> 1],
     [exited |-> FALSE, code |-> 0]}

\* the child's status when execv failed: _exit(-1)
ExecFailedStatus == [exited |-> TRUE, code |-> 255]

NoStatus == [exited |-> FALSE, code |-> -1]

\* /cache/recovery/uncrypt_status: not mounted, not readable, or its content
UncryptStates ==
    {<<"<unmounted>">>, <<"<unreadable>">>,
     <<"uncrypt_", "time", ":", " ", "1", NL>>, <<"junk", NL>>}

\* what install_package meets after the installation: the seconds passed,
\* the uncrypt status file and whether install_file can be written; every
\* value of each of the three is there, with a failing and a working write
\* for a log with and without an uncrypt line
LogEnvironments ==
    { [time_total |-> 0, uncrypt_status |-> <<"<unmounted>">>, write_ok |-> TRUE],
      [time_total |-> MaxTime, uncrypt_status |-> <<"<unmounted>">>, write_ok |-> FALSE],
      [time_total |-> MaxTime, uncrypt_status |-> <<"<unreadable>">>, write_ok |-> TRUE],
      [time_total |-> 0, uncrypt_status |-> <<"junk", NL>>, write_ok |-> TRUE],
      [time_total |-> MaxTime,
       uncrypt_status |-> <<"uncrypt_", "time", ":", " ", "1", NL>>, write_ok |-> TRUE],
      [time_total |-> 0,
       uncrypt_status |-> <<"uncrypt_", "time", ":", " ", "1", NL>>, write_ok |-> FALSE] }

PACKAGE_PATH == <<"/", "sdcard", "/", "ota.zip">>

GoodFields ==
    (K_PRE_DEVICE :> DEV_A) @@ (K_OTA_TYPE :> AB) @@ (K_PRE_BUILD_INCREMENTAL :> INCR_1)
    @@ (K_POST_BUILD_INCREMENTAL :> INCR_2) @@ (K_POST_TIMESTAMP :> DecStr(MaxTs))

InstallKeys ==
    <<K_PRE_DEVICE, K_OTA_TYPE, K_PRE_BUILD_INCREMENTAL, K_POST_BUILD_INCREMENTAL,
      K_POST_TIMESTAMP>>

\* the packages the installer is run on: for an A/B build a good package, one
\* for another device and one older than the running build, each with its
\* metadata and payload entries there or not; for a legacy build a package
\* with the update-binary entry in each state
InstallPackages(ab) ==
    IF ab
    THEN { [meta |-> m, metadata_str |-> MetadataText(f, InstallKeys),
            payload_properties |-> pl[1], payload |-> pl[2], update_binary |-> "missing"] :
           m \in {"ok", "missing"}, pl \in PayloadStates,
           f \in {GoodFields, [GoodFields EXCEPT ![K_PRE_DEVICE] = DEV_B],
                  [GoodFields EXCEPT ![K_POST_TIMESTAMP] = DecStr(1)]} }
    ELSE { [meta |-> "ok", metadata_str |-> MetadataText(GoodFields, InstallKeys),
            payload_properties |-> "missing", payload |-> FALSE, update_binary |-> ub] :
           ub \in EntryStates }

Init ==
    /\ AB_OTA_UPDATER \in BOOLEAN
    /\ zip \in InstallPackages(AB_OTA_UPDATER)
    /\ props = [device |-> DEV_A, serialno |-> SERIAL_1, incremental |-> INCR_1,
                fingerprint |-> FP_1, date_utc |-> DecStr(2)]
    /\ args \in [path : {PACKAGE_PATH}, retry_count : {0, MaxRetry}]
    /\ pc = "start"
    /\ steps = <<>>
    /\ result = NoResult
    /\ returned = NoResult
    /\ wipe_cache \in BOOLEAN
    /\ retry_update = FALSE
    /\ log_buffer = <<>>
    /\ ui = <<>>
    /\ res = [map |-> "unmapped", releases |-> 0, archive |-> "unopened",
              closes |-> 0, closed_unopened |-> FALSE,
              pipe_r |-> "none", pipe_w |-> "none", r_closes |-> 0, w_closes |-> 0]
    /\ child = [state |-> "none", wrote |-> <<>>, status |-> NoStatus, closed |-> <<>>]
    /\ pipe = <<>>
    /\ install_log = [content |-> <<>>, file |-> "unwritten", time_total |-> 0]
    /\ IdleGate
    /\ IdleVerifier

\* install.cpp:513-523: setup_install_mounts; its failure is INSTALL_ERROR
SetupInstallMounts ==
    /\ pc = "start"
    /\ \E ok \in BOOLEAN :
          /\ steps' = Append(steps, <<"setup_install_mounts", ok>>)
          /\ pc' = IF ok THEN "map" ELSE "finish"
          /\ result' = IF ok THEN result ELSE INSTALL_ERROR
    /\ UNCHANGED <<pkgVars, returned, wipe_cache, retry_update, log_buffer, ui, res,
                   child, pipe, install_log, gate, ver>>

\* install.cpp:451-473: the first UI calls, ensure_path_mounted (its result
\* is not looked at) and sysMapFile
MapPackage ==
    /\ pc = "map"
    /\ ui' = ui \o << <<"SetBackground", "INSTALLING_UPDATE">>,
                      <<"Print", "Finding update package...">>,
                      <<"SetProgressType", "DETERMINATE">>,
                      <<"ShowProgress", "VERIFICATION_PROGRESS_FRACTION",
                        "VERIFICATION_PROGRESS_TIME">>,
                      <<"Print", "Opening update package...">> >>
    /\ \E ok \in BOOLEAN :
          /\ steps' = Append(steps, <<"sysMapFile", ok>>)
          /\ pc' = IF ok THEN "verify" ELSE "finish"
          /\ result' = IF ok THEN result ELSE INSTALL_CORRUPT
          /\ res' = IF ok THEN [res EXCEPT !.map = "mapped"] ELSE res
    /\ UNCHANGED <<pkgVars, returned, wipe_cache, retry_update, log_buffer, child, pipe,
                   install_log, gate, ver>>

\* VerifyPackage that goes on to open the archive after a failed verification
VerifyPackage_GoesOn ==
    /\ pc = "verify"
    /\ \E ok \in BOOLEAN :
          /\ steps' = Append(steps, <<"verify_package", ok>>)
          /\ pc' = "open"
          /\ result' = IF ok THEN result ELSE INSTALL_CORRUPT
          /\ log_buffer' = IF ok THEN log_buffer
                           ELSE Append(log_buffer, kZipVerificationFailure)
          /\ res' = res
    /\ UNCHANGED <<pkgVars, returned, wipe_cache, retry_update, ui, child, pipe,
                   install_log, gate, ver>>

\* install.cpp:476-480: verify_package
VerifyPackage ==
    /\ pc = "verify"
    /\ \E ok \in BOOLEAN :
          /\ steps' = Append(steps, <<"verify_package", ok>>)
          /\ pc' = IF ok THEN "open" ELSE "finish"
          /\ result' = IF ok THEN result ELSE INSTALL_CORRUPT
          /\ log_buffer' = IF ok THEN log_buffer
                           ELSE Append(log_buffer, kZipVerificationFailure)
          /\ res' = IF ok THEN res
                    ELSE [res EXCEPT !.map = "released", !.releases = @ + 1]
    /\ UNCHANGED <<pkgVars, returned, wipe_cache, retry_update, ui, child, pipe,
                   install_log, gate, ver>>

\* install.cpp:483-492: OpenArchiveFromMemory; on failure the mapping is
\* released and CloseArchive is called on the handle that was not opened
OpenArchive ==
    /\ pc = "open"
    /\ \E ok \in BOOLEAN :
          /\ steps' = Append(steps, <<"OpenArchiveFromMemory", ok>>)
          /\ pc' = IF ok THEN "command" ELSE "finish"
          /\ result' = IF ok THEN result ELSE INSTALL_CORRUPT
          /\ log_buffer' = IF ok THEN log_buffer ELSE Append(log_buffer, kZipOpenFailure)
          /\ res' = IF ok THEN [res EXCEPT !.archive = "open"]
                    ELSE [res EXCEPT !.map = "released", !.releases = @ + 1,
                                     !.closes = @ + 1, !.closed_unopened = TRUE]
    /\ UNCHANGED <<pkgVars, returned, wipe_cache, retry_update, ui, child, pipe,
                   install_log, gate, ver>>

\* BuildCommand that does not disable the reboot
BuildCommand_LeavesRebootEnabled ==
    /\ pc = "command"
    /\ ui' = ui \o << <<"Print", "Installing update...">> >>
                \o (IF args.retry_count > 0
                    THEN << <<"Print", "Retry attempt: ", DecStr(args.retry_count)>> >>
                    ELSE <<>>)
    /\ log_buffer' = log_buffer \o read_source_target_build(zip)
    /\ \E creat_ok \in BOOLEAN :
          LET cmd == update_binary_command(AB_OTA_UPDATER, zip, props, creat_ok)
              ok == cmd.ret = INSTALL_SUCCESS
          IN  /\ steps' = Append(steps, <<"update_binary_command", ok>>)
              /\ pc' = IF ok THEN "fork" ELSE "cleanup"
              /\ result' = IF ok THEN result ELSE cmd.ret
              /\ res' = IF ok THEN [res EXCEPT !.pipe_r = "open", !.pipe_w = "open"]
                        ELSE [res EXCEPT !.pipe_r = "closed", !.pipe_w = "closed",
                                         !.r_closes = @ + 1, !.w_closes = @ + 1]
    /\ UNCHANGED <<pkgVars, returned, wipe_cache, retry_update, child, pipe, install_log,
                   gate, ver>>

\* install.cpp:495-500 and 306-317: the UI calls before try_update_binary,
\* then read_source_target_build, pipe() and update_binary_command; when the
\* command cannot be built both pipe ends are closed and its result returned
BuildCommand ==
    /\ pc = "command"
    /\ ui' = ui \o << <<"Print", "Installing update...">> >>
                \o (IF args.retry_count > 0
                    THEN << <<"Print", "Retry attempt: ", DecStr(args.retry_count)>> >>
                    ELSE <<>>)
                \o << <<"SetEnableReboot", FALSE>> >>
    /\ log_buffer' = log_buffer \o read_source_target_build(zip)
    /\ \E creat_ok \in BOOLEAN :
          LET cmd == update_binary_command(AB_OTA_UPDATER, zip, props, creat_ok)
              ok == cmd.ret = INSTALL_SUCCESS
          IN  /\ steps' = Append(steps, <<"update_binary_command", ok>>)
              /\ pc' = IF ok THEN "fork" ELSE "cleanup"
              /\ result' = IF ok THEN result ELSE cmd.ret
              /\ res' = IF ok THEN [res EXCEPT !.pipe_r = "open", !.pipe_w = "open"]
                        ELSE [res EXCEPT !.pipe_r = "closed", !.pipe_w = "closed",
                                         !.r_closes = @ + 1, !.w_closes = @ + 1]
    /\ UNCHANGED <<pkgVars, returned, wipe_cache, retry_update, child, pipe, install_log,
                   gate, ver>>

\* Fork that clears *wipe_cache also when fork fails
Fork_ClearsOnFailure ==
    /\ pc = "fork"
    /\ \E ok \in BOOLEAN :
          /\ steps' = Append(steps, <<"fork", ok>>)
          /\ pc' = IF ok THEN "reading" ELSE "cleanup"
          /\ result' = IF ok THEN result ELSE INSTALL_ERROR
          /\ res' = IF ok THEN [res EXCEPT !.pipe_w = "closed", !.w_closes = @ + 1]
                    ELSE [res EXCEPT !.pipe_r = "closed", !.pipe_w = "closed",
                                     !.r_closes = @ + 1, !.w_closes = @ + 1]
          /\ child' = IF ok THEN [child EXCEPT !.state = "forked"] ELSE child
          /\ wipe_cache' = FALSE
          /\ retry_update' = IF ok THEN FALSE ELSE retry_update
    /\ UNCHANGED <<pkgVars, returned, log_buffer, ui, pipe, install_log, gate, ver>>

\* install.cpp:366-385: fork; on failure both pipe ends are closed and the
\* result is INSTALL_ERROR; on success the parent closes the write end and
\* clears *wipe_cache and retry_update
Fork ==
    /\ pc = "fork"
    /\ \E ok \in BOOLEAN :
          /\ steps' = Append(steps, <<"fork", ok>>)
          /\ pc' = IF ok THEN "reading" ELSE "cleanup"
          /\ result' = IF ok THEN result ELSE INSTALL_ERROR
          /\ res' = IF ok THEN [res EXCEPT !.pipe_w = "closed", !.w_closes = @ + 1]
                    ELSE [res EXCEPT !.pipe_r = "closed", !.pipe_w = "closed",
                                     !.r_closes = @ + 1, !.w_closes = @ + 1]
          /\ child' = IF ok THEN [child EXCEPT !.state = "forked"] ELSE child
          /\ wipe_cache' = IF ok THEN FALSE ELSE wipe_cache
          /\ retry_update' = IF ok THEN FALSE ELSE retry_update
    /\ UNCHANGED <<pkgVars, returned, log_buffer, ui, pipe, install_log, gate, ver>>

\* ChildExec in which the child closes both ends of the pipe
ChildExec_ClosesBoth ==
    /\ child.state = "forked"
    /\ \E ok \in BOOLEAN :
          LET c == [child EXCEPT !.closed = <<"read", "write">>]
          IN  child' = IF ok THEN [c EXCEPT !.state = "running"]
                       ELSE [c EXCEPT !.state = "exited", !.status = ExecFailedStatus]
    /\ UNCHANGED <<pkgVars, pc, steps, result, returned, wipe_cache, retry_update,
                   log_buffer, ui, res, pipe, install_log, gate, ver>>

\* install.cpp:375-381, in the child: umask, close of the read end, execv;
\* when execv fails the child exits with -1
ChildExec ==
    /\ child.state = "forked"
    /\ \E ok \in BOOLEAN :
          LET c == [child EXCEPT !.closed = <<"read">>]
          IN  child' = IF ok THEN [c EXCEPT !.state = "running"]
                       ELSE [c EXCEPT !.state = "exited", !.status = ExecFailedStatus]
    /\ UNCHANGED <<pkgVars, pc, steps, result, returned, wipe_cache, retry_update,
                   log_buffer, ui, res, pipe, install_log, gate, ver>>

\* the update binary writes one line on the status pipe
ChildWrite ==
    /\ child.state = "running"
    /\ Len(child.wrote) < MaxLines
    /\ \E line \in ChildLines :
          /\ pipe' = Append(pipe, line)
          /\ child' = [child EXCEPT !.wrote = Append(@, line)]
    /\ UNCHANGED <<pkgVars, pc, steps, result, returned, wipe_cache, retry_update,
                   log_buffer, ui, res, install_log, gate, ver>>

\* the update binary ends, which closes the last write end of the pipe
ChildExit ==
    /\ child.state = "running"
    /\ \E st \in WaitStatuses :
          child' = [child EXCEPT !.state = "exited", !.status = st]
    /\ UNCHANGED <<pkgVars, pc, steps, result, returned, wipe_cache, retry_update,
                   log_buffer, ui, res, pipe, install_log, gate, ver>>

\* install.cpp:389-431: one turn of the loop, fgets returned a line
ReadLine ==
    /\ pc = "reading"
    /\ Len(pipe) > 0
    /\ \E ub \in UBOutcomes :
          LET eff == LineEffect(Head(pipe), ub)
          IN  /\ pc' = IF eff.fault THEN "crashed" ELSE "reading"
              /\ ui' = ui \o eff.ui
              /\ wipe_cache' = (wipe_cache \/ eff.wipe)
              /\ retry_update' = (retry_update \/ eff.retry)
              /\ log_buffer' = log_buffer \o eff.log
    /\ pipe' = Tail(pipe)
    /\ UNCHANGED <<pkgVars, steps, result, returned, res, child, install_log, gate, ver>>

\* ReapChild that does not wait for the end of the stream
ReapChild_BeforeEOF ==
    /\ pc = "reading"
    /\ child.state = "exited"
    /\ res' = [res EXCEPT !.pipe_r = "closed", !.r_closes = @ + 1]
    /\ child' = [child EXCEPT !.state = "reaped"]
    /\ steps' = Append(steps, <<"waitpid", TRUE>>)
    /\ result' = TerminalStatus(retry_update, child.status)
    /\ pc' = "cleanup"
    /\ UNCHANGED <<pkgVars, returned, wipe_cache, retry_update, log_buffer, ui, pipe,
                   install_log, gate, ver>>

\* install.cpp:432-444: fgets returned NULL at the end of the stream; fclose,
\* waitpid and the result of try_update_binary
ReapChild ==
    /\ pc = "reading"
    /\ Len(pipe) = 0
    /\ child.state = "exited"
    /\ res' = [res EXCEPT !.pipe_r = "closed", !.r_closes = @ + 1]
    /\ child' = [child EXCEPT !.state = "reaped"]
    /\ steps' = Append(steps, <<"waitpid", TRUE>>)
    /\ result' = TerminalStatus(retry_update, child.status)
    /\ pc' = "cleanup"
    /\ UNCHANGED <<pkgVars, returned, wipe_cache, retry_update, log_buffer, ui, pipe,
                   install_log, gate, ver>>

\* Cleanup that keeps the mapping
Cleanup_KeepsMapping ==
    /\ pc = "cleanup"
    /\ ui' = ui \o << <<"SetEnableReboot", TRUE>>, <<"Print", <<NL>>>> >>
    /\ res' = [res EXCEPT !.archive = "closed", !.closes = @ + 1]
    /\ pc' = "finish"
    /\ UNCHANGED <<pkgVars, steps, result, returned, wipe_cache, retry_update, log_buffer,
                   child, pipe, install_log, gate, ver>>

\* install.cpp:501-506: try_update_binary returned; reboot is enabled again,
\* the mapping released and the archive closed
Cleanup ==
    /\ pc = "cleanup"
    /\ ui' = ui \o << <<"SetEnableReboot", TRUE>>, <<"Print", <<NL>>>> >>
    /\ res' = [res EXCEPT !.map = "released", !.releases = @ + 1,
                          !.archive = "closed", !.closes = @ + 1]
    /\ pc' = "finish"
    /\ UNCHANGED <<pkgVars, steps, result, returned, wipe_cache, retry_update, log_buffer,
                   child, pipe, install_log, gate, ver>>

\* LogContent with the success bit set for every result but INSTALL_ERROR
LogContent_BitForNonError(path, res_, time_total, retry_count, buffer) ==
    LET log_header ==
            << path,
               IF res_ # INSTALL_ERROR THEN <<"1">> ELSE <<"0">>,
               <<"time_total: ">> \o DecStr(time_total),
               <<"retry: ">> \o DecStr(retry_count) >>
    IN  Join(log_header, NL) \o <<NL>> \o Join(buffer, NL)

\* install.cpp:543-550: the header and the log content
LogContent(path, res_, time_total, retry_count, buffer) ==
    LET log_header ==
            << path,
               IF res_ = INSTALL_SUCCESS THEN <<"1">> ELSE <<"0">>,
               <<"time_total: ">> \o DecStr(time_total),
               <<"retry: ">> \o DecStr(retry_count) >>
    IN  Join(log_header, NL) \o <<NL>> \o Join(buffer, NL)

\* install.cpp:529-540: what the uncrypt status adds to log_buffer
UncryptLines(uncrypt_status) ==
    IF uncrypt_status \in {<<"<unmounted>">>, <<"<unreadable>">>} THEN <<>>
    ELSE IF ~StartsWith(uncrypt_status, <<"uncrypt_">>) THEN <<>>
    ELSE <<Trim(uncrypt_status)>>

\* install.cpp:525-558: the elapsed time, the uncrypt status, the install
\* log written to install_file, and the return of install_package
WriteInstallLog ==
    /\ pc = "finish"
    /\ \E e \in LogEnvironments :
          LET buffer == log_buffer \o UncryptLines(e.uncrypt_status)
              log_content ==
                  LogContent(args.path, result, e.time_total, args.retry_count, buffer)
          IN  /\ log_buffer' = buffer
              /\ install_log' = [content |-> log_content,
                                 file |-> IF e.write_ok THEN "written" ELSE "failed",
                                 time_total |-> e.time_total]
    /\ returned' = result
    /\ pc' = "returned"
    /\ UNCHANGED <<pkgVars, steps, result, wipe_cache, retry_update, res, child, pipe,
                   ui, gate, ver>>

Next ==
    \/ SetupInstallMounts
    \/ MapPackage
    \/ VerifyPackage
    \/ OpenArchive
    \/ BuildCommand
    \/ Fork
    \/ ChildExec
    \/ ChildWrite
    \/ ChildExit
    \/ ReadLine
    \/ ReapChild
    \/ Cleanup
    \/ WriteInstallLog

Spec == Init /\ [][Next]_vars

(***************************************************************************)
(* The verifier (update_verifier.cpp).  ver is a record:                   *)
(*   pc             where main is                                          *)
(*   is_successful  what isSlotMarkedSuccessful answers for the slot       *)
(*   verity_mode    ro.boot.veritymode                                     *)
(*   care_map       the state of the care map file: "ok", "missing" or     *)
(*                  "unreadable"; care_map_text its content                *)
(*   slot_suffix    ro.boot.slot_suffix                                    *)
(*   lines, i       the lines of the care map and the index of the pair    *)
(*                  verify_image is at                                     *)
(*   device, ranges, r   the device read_blocks opened, the pieces of its  *)
(*                  range string and the index of the pair it is at        *)
(*   opened         the block devices opened so far                        *)
(*   reads          the reads done so far: device, offset and size (bytes) *)
(*   verified       what verify_image returned: "none", "true", "false"    *)
(*   marks          how often markBootSuccessful was called                *)
(*   mark_success   the success it reported: "none", "true", "false"       *)
(*   exited, code   whether main returned, and its value                   *)
(*   queried        isSlotMarkedSuccessful was called                      *)
(*   mode_read      ro.boot.veritymode was read                            *)
(*   care_map_tried the care map file was opened, or the open tried        *)
(*   from           the place main returned from                           *)
(***************************************************************************)
BLOCKSIZE == 4096

SYSTEM == "/dev/block/by-name/system"
VENDOR == "/dev/block/by-name/vendor"

\* strcasecmp over the words of the model: the word in lower case
ToLower(w) ==
    IF w \in {"eio", "EIO", "Eio"} THEN "eio"
    ELSE IF w \in {"enforcing", "ENFORCING"} THEN "enforcing"
    ELSE w

VerityModes == {"enforcing", "ENFORCING", "eio", "EIO", "Eio", "", "logging"}

\* android::base::ParseUint: digits only, nothing after them, within max.
\* (strtoull also takes a sign; a negated value is above the maximum of
\* unsigned int.)  Values of up to nine digits are kept as numbers.
RECURSIVE DigitsValue(_)
DigitsValue(d) ==
    IF Len(d) = 0 THEN 0 ELSE DigitsValue(SubSeq(d, 1, Len(d) - 1)) * 10 + DigitVal(d[Len(d)])

ParseUint(s) ==
    LET t == TrimLeft(s)
        d == IF Len(t) > 0 /\ t[1] = "+" THEN Tail(t) ELSE t
        allDigits == Len(d) > 0 /\ \A k \in 1..Len(d) : IsDigit(d[k])
    IN  IF allDigits /\ Len(StripZeros(d)) <= 9
        THEN [ok |-> TRUE, val |-> DigitsValue(StripZeros(d))]
        ELSE [ok |-> FALSE, val |-> 0]

RECURSIVE NumbersText(_)
\* the numbers written in decimal, with commas between them
NumbersText(ns) ==
    IF Len(ns) = 0 THEN <<>>
    ELSE IF Len(ns) = 1 THEN DecStr(ns[1])
    ELSE DecStr(ns[1]) \o <<",">> \o NumbersText(Tail(ns))

BlockPairs == {<<a, b>> : a \in 0..MaxBlock, b \in 0..MaxBlock}

ValidPairs == {p \in BlockPairs : p[1] < p[2]}

\* the number of blocks whose bytes no longer fit 32 bits: 2^32 / BLOCKSIZE
WrapBlocks == 1048576

\* ranges of WrapBlocks blocks and of one block more, all below 2^32 blocks
LargePairs == {<<0, WrapBlocks>>, <<1, WrapBlocks + 2>>}

\* range strings that are well formed: one or two ranges
ValidRangeSpecs ==
    {NumbersText(<<2, p[1], p[2]>>) : p \in ValidPairs \cup LargePairs}
    \cup {NumbersText(<<4, p[1], p[2], q[1], q[2]>>) : p \in ValidPairs, q \in ValidPairs}

\* range strings that are not
InvalidRangeSpecs ==
    { NumbersText(<<0>>),
      NumbersText(<<3, 0, 1, 2>>),
      NumbersText(<<4, 0, 1>>),
      <<"x", ",", "0", ",", "1">>,
      NumbersText(<<2, 1, 1>>),
      NumbersText(<<2, 1, 0>>),
      <<"2", ",", "0", ",", "x">>,
      NumbersText(<<4, 0, 1, 1, 0>>) }

RangeSpecs == ValidRangeSpecs \cup InvalidRangeSpecs

\* care map files: two lines, four lines, and files with another line count
CareMapTexts ==
    {<<SYSTEM, NL>> \o rs \o <<NL>> : rs \in RangeSpecs}
    \cup {<<SYSTEM, NL>> \o rs \o <<NL, VENDOR, NL>> \o vs \o <<NL>> :
             rs \in RangeSpecs, vs \in RangeSpecs}
    \cup { <<>>, <<SYSTEM, NL>>,
           <<SYSTEM, NL>> \o NumbersText(<<2, 0, 1>>) \o <<NL, VENDOR, NL>>,
           <<SYSTEM, NL>> \o NumbersText(<<2, 0, 1>>) \o <<NL, NL, VENDOR, NL>>
               \o NumbersText(<<2, 0, 1>>) \o <<NL>> }

VerifierInit ==
    /\ AB_OTA_UPDATER = TRUE
    /\ zip = [meta |-> "missing", metadata_str |-> <<>>, payload_properties |-> "missing",
              payload |-> FALSE, update_binary |-> "missing"]
    /\ props = [device |-> DEV_A, serialno |-> SERIAL_1, incremental |-> INCR_1,
                fingerprint |-> FP_1, date_utc |-> DecStr(2)]
    /\ args = [path |-> PACKAGE_PATH, retry_count |-> 0]
    /\ IdleInstaller
    /\ IdleGate
    /\ \E succ \in {"TRUE", "FALSE", "INVALID"}, mode \in VerityModes,
          cm \in {"ok", "missing", "unreadable"}, text \in CareMapTexts :
          /\ cm # "ok" => text = <<>>
          /\ ver = [pc |-> "start", is_successful |-> succ, verity_mode |-> mode,
                    care_map |-> cm, care_map_text |-> text, slot_suffix |-> "_a",
                    lines |-> <<>>, i |-> 0, device |-> "", ranges |-> <<>>, r |-> 0,
                    opened |-> <<>>, reads |-> <<>>, verified |-> "none", marks |-> 0,
                    mark_success |-> "none", exited |-> FALSE, code |-> 0,
                    from |-> "none", queried |-> FALSE, mode_read |-> FALSE,
                    care_map_tried |-> FALSE]

\* main returns c; from keeps the place it returned from
VerExit(v, c) == [v EXCEPT !.pc = "exited", !.exited = TRUE, !.code = c, !.from = v.pc]

\* QuerySlot that verifies also a slot reported TRUE
QuerySlot_VerifiesMarkedSlot ==
    /\ ver.pc = "start"
    /\ \E module_ok \in BOOLEAN :
          ver' = IF ~module_ok THEN VerExit(ver, -1)
                 ELSE IF ver.is_successful \in {"FALSE", "TRUE"}
                 THEN [ver EXCEPT !.pc = "verity", !.queried = TRUE]
                 ELSE VerExit([ver EXCEPT !.queried = TRUE], 0)
    /\ UNCHANGED <<pkgVars, instVars, gate>>

\* update_verifier.cpp:150-161 and 189-190: the boot control service, the
\* state of the current slot; a slot not reported FALSE ends the run with 0
QuerySlot ==
    /\ ver.pc = "start"
    /\ \E module_ok \in BOOLEAN :
          ver' = IF ~module_ok THEN VerExit(ver, -1)
                 ELSE IF ver.is_successful = "FALSE"
                 THEN [ver EXCEPT !.pc = "verity", !.queried = TRUE]
                 ELSE VerExit([ver EXCEPT !.queried = TRUE], 0)
    /\ UNCHANGED <<pkgVars, instVars, gate>>

\* CheckVerityMode that compares with "enforcing" whatever the letter case
CheckVerityMode_AnyCase ==
    /\ ver.pc = "verity"
    /\ \E get_ok \in BOOLEAN :
          LET v == [ver EXCEPT !.mode_read = get_ok]
          IN  ver' = IF ~get_ok THEN VerExit(v, -1)
                     ELSE IF ToLower(v.verity_mode) = "eio" THEN VerExit(v, -1)
                     ELSE IF ToLower(v.verity_mode) # "enforcing" THEN VerExit(v, -1)
                     ELSE [v EXCEPT !.pc = "care_map"]
    /\ UNCHANGED <<pkgVars, instVars, gate>>

\* update_verifier.cpp:163-174: the dm-verity mode must be "enforcing"
CheckVerityMode ==
    /\ ver.pc = "verity"
    /\ \E get_ok \in BOOLEAN :
          LET v == [ver EXCEPT !.mode_read = get_ok]
          IN  ver' = IF ~get_ok THEN VerExit(v, -1)
                     ELSE IF ToLower(v.verity_mode) = "eio" THEN VerExit(v, -1)
                     ELSE IF v.verity_mode # "enforcing" THEN VerExit(v, -1)
                     ELSE [v EXCEPT !.pc = "care_map"]
    /\ UNCHANGED <<pkgVars, instVars, gate>>

\* verify_image failed: main returns -1
VerifyFailed(v) == VerExit([v EXCEPT !.verified = "false"], -1)

\* update_verifier.cpp:96: (range_end - range_start) * BLOCKSIZE in unsigned
\* 32-bit arithmetic; 2^32 = WrapBlocks * BLOCKSIZE
RangeSize(range_start, range_end) == ((range_end - range_start) % WrapBlocks) * BLOCKSIZE

\* OpenCareMap that fails when the care map cannot be opened
OpenCareMap_MissingFails ==
    /\ ver.pc = "care_map"
    /\ LET lines == Split(Trim(ver.care_map_text), NL)
           v == [ver EXCEPT !.care_map_tried = TRUE]
       IN  ver' = IF v.care_map = "missing" THEN VerifyFailed(v)
                  ELSE IF v.care_map = "unreadable" THEN VerifyFailed(v)
                  ELSE IF Len(lines) # 2 /\ Len(lines) # 4 THEN VerifyFailed(v)
                  ELSE [v EXCEPT !.lines = lines, !.i = 1, !.pc = "read_blocks"]
    /\ UNCHANGED <<pkgVars, instVars, gate>>

\* update_verifier.cpp:110-134: verify_image up to its loop: the care map is
\* opened, read, trimmed and split into lines; a missing file is a success
OpenCareMap ==
    /\ ver.pc = "care_map"
    /\ LET lines == Split(Trim(ver.care_map_text), NL)
           v == [ver EXCEPT !.care_map_tried = TRUE]
       IN  ver' = IF v.care_map = "missing"
                  THEN [v EXCEPT !.verified = "true", !.pc = "mark"]
                  ELSE IF v.care_map = "unreadable" THEN VerifyFailed(v)
                  ELSE IF Len(lines) # 2 /\ Len(lines) # 4 THEN VerifyFailed(v)
                  ELSE [v EXCEPT !.lines = lines, !.i = 1, !.pc = "read_blocks"]
    /\ UNCHANGED <<pkgVars, instVars, gate>>

\* OpenDevice that does not compare the count with the number of integers
OpenDevice_CountNotCompared ==
    /\ ver.pc = "read_blocks"
    /\ \E open_ok \in BOOLEAN :
          LET blk_device == ver.lines[ver.i] \o <<ver.slot_suffix>>
              ranges == Split(ver.lines[ver.i + 1], ",")
              range_count == ParseUint(ranges[1])
          IN  ver' = IF ~open_ok THEN VerifyFailed(ver)
                     ELSE IF \/ ~range_count.ok
                             \/ range_count.val = 0
                             \/ range_count.val % 2 # 0
                             \/ Len(ranges) < 3
                     THEN VerifyFailed([ver EXCEPT !.opened = Append(@, blk_device)])
                     ELSE [ver EXCEPT !.opened = Append(@, blk_device),
                                      !.device = blk_device, !.ranges = ranges,
                                      !.r = 2, !.pc = "range"]
    /\ UNCHANGED <<pkgVars, instVars, gate>>

\* update_verifier.cpp:59-79: read_blocks up to its loop: the block device
\* of the slot is opened and the count of the range string checked
OpenDevice ==
    /\ ver.pc = "read_blocks"
    /\ \E open_ok \in BOOLEAN :
          LET blk_device == ver.lines[ver.i] \o <<ver.slot_suffix>>
              ranges == Split(ver.lines[ver.i + 1], ",")
              range_count == ParseUint(ranges[1])
          IN  ver' = IF ~open_ok THEN VerifyFailed(ver)
                     ELSE IF \/ ~range_count.ok
                             \/ range_count.val = 0
                             \/ range_count.val % 2 # 0
                             \/ range_count.val # Len(ranges) - 1
                     THEN VerifyFailed([ver EXCEPT !.opened = Append(@, blk_device)])
                     ELSE [ver EXCEPT !.opened = Append(@, blk_device),
                                      !.device = blk_device, !.ranges = ranges,
                                      !.r = 2, !.pc = "range"]
    /\ UNCHANGED <<pkgVars, instVars, gate>>

\* ReadRange that goes on after a failed read
ReadRange_IgnoresReadFailure ==
    /\ ver.pc = "range"
    /\ \E seek_ok \in BOOLEAN, read_result \in BOOLEAN :
          LET range_start == ParseUint(ver.ranges[ver.r])
              range_end == ParseUint(ver.ranges[ver.r + 1])
              read_ok == read_result \/ RangeSize(range_start.val, range_end.val) = 0
              rd == [device |-> ver.device, offset |-> range_start.val * BLOCKSIZE,
                     size |-> RangeSize(range_start.val, range_end.val), ok |-> read_ok]
              after == [ver EXCEPT !.reads = Append(@, rd)]
          IN  ver' = IF ~range_start.ok \/ ~range_end.ok \/ range_start.val >= range_end.val
                     THEN VerifyFailed(ver)
                     ELSE IF ~seek_ok THEN VerifyFailed(ver)
                     ELSE IF ver.r + 2 <= Len(ver.ranges)
                     THEN [after EXCEPT !.r = @ + 2]
                     ELSE IF ver.i + 2 <= Len(ver.lines)
                     THEN [after EXCEPT !.i = @ + 2, !.pc = "read_blocks"]
                     ELSE [after EXCEPT !.verified = "true", !.pc = "mark"]
    /\ UNCHANGED <<pkgVars, instVars, gate>>

\* update_verifier.cpp:82-106 and 136-142: one turn of the loop of read_blocks:
\* the pair is parsed, the device positioned and the blocks read (ReadFully
\* of no bytes succeeds); after the last pair verify_image goes on to the
\* next device or returns true
ReadRange ==
    /\ ver.pc = "range"
    /\ \E seek_ok \in BOOLEAN, read_result \in BOOLEAN :
          LET range_start == ParseUint(ver.ranges[ver.r])
              range_end == ParseUint(ver.ranges[ver.r + 1])
              read_ok == read_result \/ RangeSize(range_start.val, range_end.val) = 0
              rd == [device |-> ver.device, offset |-> range_start.val * BLOCKSIZE,
                     size |-> RangeSize(range_start.val, range_end.val), ok |-> read_ok]
              after == [ver EXCEPT !.reads = Append(@, rd)]
          IN  ver' = IF ~range_start.ok \/ ~range_end.ok \/ range_start.val >= range_end.val
                     THEN VerifyFailed(ver)
                     ELSE IF ~seek_ok THEN VerifyFailed(ver)
                     ELSE IF ~read_ok THEN VerifyFailed(after)
                     ELSE IF ver.r + 2 <= Len(ver.ranges)
                     THEN [after EXCEPT !.r = @ + 2]
                     ELSE IF ver.i + 2 <= Len(ver.lines)
                     THEN [after EXCEPT !.i = @ + 2, !.pc = "read_blocks"]
                     ELSE [after EXCEPT !.verified = "true", !.pc = "mark"]
    /\ UNCHANGED <<pkgVars, instVars, gate>>

\* update_verifier.cpp:180-190: markBootSuccessful and the return of main
MarkBootSuccessful ==
    /\ ver.pc = "mark"
    /\ \E success \in BOOLEAN :
          ver' = VerExit([ver EXCEPT !.marks = @ + 1,
                                     !.mark_success = IF success THEN "true" ELSE "false"],
                         IF success THEN 0 ELSE -1)
    /\ UNCHANGED <<pkgVars, instVars, gate>>

VerifierNext ==
    \/ QuerySlot
    \/ CheckVerityMode
    \/ OpenCareMap
    \/ OpenDevice
    \/ ReadRange
    \/ MarkBootSuccessful

VerifierSpec == VerifierInit /\ [][VerifierNext]_vars

(***************************************************************************)
(* Properties of the installer.                                            *)
(***************************************************************************)
StepNames(k) == steps[k][1]

Forked == \E k \in 1..Len(steps) : steps[k] = <<"fork", TRUE>>

ForkTried == \E k \in 1..Len(steps) : StepNames(k) = "fork"

\* the steps that come before the fork, in their order, all succeeded
ChecksPassed ==
    << <<"setup_install_mounts", TRUE>>, <<"sysMapFile", TRUE>>, <<"verify_package", TRUE>>,
       <<"OpenArchiveFromMemory", TRUE>>, <<"update_binary_command", TRUE>> >>

\* the result the driver returns when the named step fails
FailingResult(name) ==
    IF name = "setup_install_mounts" THEN {INSTALL_ERROR}
    ELSE IF name \in {"sysMapFile", "verify_package", "OpenArchiveFromMemory"}
    THEN {INSTALL_CORRUPT}
    ELSE IF name = "fork" THEN {INSTALL_ERROR}
    ELSE IF ~AB_OTA_UPDATER THEN {INSTALL_CORRUPT, INSTALL_ERROR}
    ELSE IF FirstFailing(PkgMetadata) = 0 \/ FirstFailing(PkgMetadata) = 1
    THEN {INSTALL_CORRUPT}
    ELSE {INSTALL_ERROR}

\* C1: the child is forked only after setup of the mounts, the mapping, the
\* signature verification, the opening of the archive and
\* update_binary_command (with the A/B gate) succeeded, in this order; when
\* one of them fails no child is ever forked and the driver returns the
\* result of the failing step (ERROR for a gate rejection).
C1_ForkAfterChecks ==
    /\ (ForkTried \/ child.state # "none") =>
          /\ Len(steps) >= 6
          /\ SubSeq(steps, 1, 5) = ChecksPassed
          /\ StepNames(6) = "fork"
    /\ \A k \in 1..Len(steps) :
          (steps[k][2] = FALSE /\ StepNames(k) # "fork") =>
              /\ k = Len(steps)
              /\ ~ForkTried
              /\ child.state = "none"
              /\ result \in FailingResult(StepNames(k))
              /\ pc \in {"cleanup", "finish", "returned"}
              /\ pc = "returned" => returned = result

\* a package for another device was rejected with ERROR and no child exists
C1_Witness ==
    /\ AB_OTA_UPDATER
    /\ pc = "returned"
    /\ returned = INSTALL_ERROR
    /\ steps = SubSeq(ChecksPassed, 1, 4) \o << <<"update_binary_command", FALSE>> >>
    /\ child.state = "none"
    /\ MetaGet(PkgMetadata, K_PRE_DEVICE) = DEV_B

\* the command of a line: its first token
CommandOfLine == [l \in ChildLines |-> Strtok(l, {" ", NL}).tok]

CommandOf(line) == CommandOfLine[line]

HasRetry(stream) == \E k \in 1..Len(stream) : CommandOf(stream[k]) = <<"retry_update">>

\* the child has ended, so the lines it wrote are the whole stream
StreamComplete == child.state \in {"exited", "reaped"}

\* try_update_binary is over: it returned after waitpid, or the process
\* faulted in the loop
SupervisorEnded == child.state = "reaped" \/ pc = "crashed"

\* C2: for every stream that contains a retry_update command at any
\* position the child supervisor returns RETRY, whatever the child's exit
\* code and whether or not it exited normally.
C2_RetryWins ==
    (StreamComplete /\ SupervisorEnded /\ HasRetry(child.wrote)) => result = INSTALL_RETRY

\* C2, for the runs in which try_update_binary returns
C2_RetryWinsWhenReturned ==
    (child.state = "reaped" /\ HasRetry(child.wrote)) => result = INSTALL_RETRY

\* C3: for every stream that ends in EOF, has no retry_update and is followed
\* by a normal exit with code 0, the driver returns SUCCESS.
C3_CleanExitSucceeds ==
    (/\ StreamComplete
     /\ SupervisorEnded
     /\ ~HasRetry(child.wrote)
     /\ child.status.exited
     /\ child.status.code = 0) => result = INSTALL_SUCCESS

\* C3, for the runs in which try_update_binary returns
C3_CleanExitSucceedsWhenReturned ==
    (/\ child.state = "reaped"
     /\ ~HasRetry(child.wrote)
     /\ child.status.exited
     /\ child.status.code = 0) => result = INSTALL_SUCCESS

\* C4: for every stream with no retry_update, the driver returns ERROR when
\* the child did not exit normally or exited with a non-zero code; a fork
\* failure returns ERROR too.
C4_FailedChildIsError ==
    /\ (/\ StreamComplete
        /\ SupervisorEnded
        /\ ~HasRetry(child.wrote)
        /\ (~child.status.exited \/ child.status.code # 0)) => result = INSTALL_ERROR
    /\ (ForkTried /\ ~Forked) => result = INSTALL_ERROR

\* C4, for the runs in which try_update_binary returns
C4_FailedChildIsErrorWhenReturned ==
    /\ (/\ child.state = "reaped"
        /\ ~HasRetry(child.wrote)
        /\ (~child.status.exited \/ child.status.code # 0)) => result = INSTALL_ERROR
    /\ (ForkTried /\ ~Forked) => result = INSTALL_ERROR

\* C8: when install_package has returned, the log content begins with four
\* header lines, the package path, the success bit, "time_total: <seconds>"
\* and "retry: <retry_count>", followed by the log buffer; the bit is 1
\* exactly when the result is SUCCESS; and the value returned is the result
\* of the installation whether or not install_file could be written.
C8_LogHeader ==
    pc = "returned" =>
        LET lines == Split(install_log.content, NL)
        IN  /\ Len(lines) >= 5
            /\ lines[1] = args.path
            /\ lines[2] = (IF returned = INSTALL_SUCCESS THEN <<"1">> ELSE <<"0">>)
            /\ \E t \in 0..MaxTime : lines[3] = <<"time_total: ">> \o DecStr(t)
            /\ lines[4] = <<"retry: ">> \o DecStr(args.retry_count)
            /\ Join(SubSeq(lines, 5, Len(lines)), NL) = Join(log_buffer, NL)
            /\ returned = result
            /\ returned \in {INSTALL_SUCCESS, INSTALL_ERROR, INSTALL_CORRUPT, INSTALL_RETRY}

\* a RETRY was returned with the bit 0 although install_file was not written
C8_Witness ==
    /\ pc = "returned"
    /\ returned = INSTALL_RETRY
    /\ install_log.file = "failed"
    /\ Split(install_log.content, NL)[2] = <<"0">>
    /\ args.retry_count = 1

\* sysMapFile was called and succeeded
Mapped == \E k \in 1..Len(steps) : steps[k] = <<"sysMapFile", TRUE>>

\* really_install_package has returned, or install_package ended without it
DriverDone == pc \in {"finish", "returned"}

\* C18: the mapping is never released twice and never when sysMapFile
\* failed or was not called; once really_install_package has returned after
\* a successful sysMapFile, whatever the path (failed verification, failed
\* open, gate rejection, failed fork, RETRY, ERROR, SUCCESS), it was
\* released exactly once.
C18_MapReleasedOnce ==
    /\ res.releases <= 1
    /\ ~Mapped => res.releases = 0 /\ res.map = "unmapped"
    /\ (DriverDone /\ Mapped) => res.releases = 1 /\ res.map = "released"

\* the driver returned ERROR after a failed fork and the mapping was released
C18_Witness ==
    /\ pc = "returned"
    /\ \E k \in 1..Len(steps) : steps[k] = <<"fork", FALSE>>
    /\ returned = INSTALL_ERROR
    /\ res.releases = 1

\* C19: CloseArchive is called only on a handle OpenArchiveFromMemory
\* opened: never on the handle of a failed open, and at most once.
C19_CloseOnlyOpened ==
    /\ ~res.closed_unopened
    /\ res.closes <= 1
    /\ res.closes = 1 => \E k \in 1..Len(steps) : steps[k] = <<"OpenArchiveFromMemory", TRUE>>

EffectOfLine == [l \in ChildLines |-> LineEffect(l, "garbage")]

\* the effects of the lines, applied one after the other in their order
RECURSIVE EffectsOf(_)
EffectsOf(lines) ==
    IF Len(lines) = 0 THEN NoEffect
    ELSE LET before == EffectsOf(SubSeq(lines, 1, Len(lines) - 1))
             eff == EffectOfLine[lines[Len(lines)]]
         IN  [fault |-> FALSE, ui |-> before.ui \o eff.ui, wipe |-> before.wipe \/ eff.wipe,
              retry |-> before.retry \/ eff.retry, log |-> before.log \o eff.log]

\* the last n elements of a sequence, the last skip elements left aside
TailPart(seq, n, skip) == SubSeq(seq, Len(seq) - skip - n + 1, Len(seq) - skip)

\* a line the loop cannot take apart: a command without the arguments it needs
MalformedLine == [l \in ChildLines |-> LineEffect(l, "fault").fault]

Malformed(line) == MalformedLine[line]

\* the number of log entries really_install_package makes before the loop,
\* for every package the installer is given
LogBeforeLoop ==
    [z \in InstallPackages(TRUE) \cup InstallPackages(FALSE) |->
        Len(read_source_target_build(z))]

\* the UI calls of the driver before the loop
UiBeforeLoop == 7 + (IF args.retry_count > 0 THEN 1 ELSE 0)

\* C13: no line of the child makes the supervisor fault, and a malformed
\* line (progress with fewer than two arguments, set_progress without an
\* argument, log without a text) is skipped: the UI calls and log entries
\* made are those of the other lines read so far.
C13_MalformedSkipped ==
    /\ pc # "crashed"
    /\ Forked =>
          LET nread == Len(child.wrote) - Len(pipe)
              wellFormed == SelectSeq(SubSeq(child.wrote, 1, nread),
                                      LAMBDA l : ~Malformed(l))
              eff == EffectsOf(wellFormed)
              closing == IF pc \in {"finish", "returned"} THEN 2 ELSE 0
          IN  /\ Len(ui) = UiBeforeLoop + Len(eff.ui) + closing
              /\ Len(log_buffer) - LogBeforeLoop[zip] - Len(eff.log)
                    \in (IF pc = "returned" THEN {0, 1} ELSE {0})

\* C20: the parent applies the effects of the child's lines in the order
\* the child wrote them: at every moment after the fork the UI calls, the
\* log entries, wipe_cache and retry_update are those of the lines read so
\* far, in order; waitpid is called only when every line was read, the
\* result is set only by then, and nothing of it changes afterwards.
C20_EffectsInOrder ==
    Forked =>
        LET nread == Len(child.wrote) - Len(pipe)
            applied == IF pc = "crashed" THEN nread - 1 ELSE nread
            eff == EffectsOf(SubSeq(child.wrote, 1, applied))
            closing == IF pc \in {"finish", "returned"} THEN 2 ELSE 0
        IN  /\ wipe_cache = eff.wipe
            /\ retry_update = eff.retry
            /\ Len(ui) >= Len(eff.ui) + closing
            /\ TailPart(ui, Len(eff.ui), closing) = eff.ui
            /\ \E uncrypt \in {0, 1} :
                  /\ uncrypt = 1 => pc = "returned"
                  /\ Len(log_buffer) >= Len(eff.log) + uncrypt
                  /\ TailPart(log_buffer, Len(eff.log), uncrypt) = eff.log
            /\ child.state = "reaped" => pipe = <<>> /\ nread = Len(child.wrote)
            /\ result # NoResult => child.state = "reaped"
            /\ pc \in {"cleanup", "finish", "returned"} => child.state = "reaped"

\* wipe_cache, a log entry and a screen text were written, all read in that
\* order before the child was reaped with a clean exit
C20_Witness ==
    /\ pc = "cleanup"
    /\ child.state = "reaped"
    /\ child.wrote = << <<"log", " ", "msg", " ", "1", NL>>, <<"wipe_cache", NL>> >>
    /\ wipe_cache
    /\ result = INSTALL_SUCCESS

\* the commands the loop knows
KnownCommands ==
    { <<"progress">>, <<"set_progress">>, <<"ui_print">>, <<"wipe_cache">>,
      <<"clear_display">>, <<"enable_reboot">>, <<"retry_update">>, <<"log">> }

KnownLine(line) == CommandOf(line) \in KnownCommands

\* C21: a line whose command is none of the known ones changes nothing:
\* at every moment after the fork wipe_cache, retry_update, the UI calls
\* and the log entries are those of the stream read so far with such lines
\* taken out, and the result of try_update_binary is the terminal status
\* of the stream without them.
C21_UnknownIgnored ==
    Forked =>
        LET nread == Len(child.wrote) - Len(pipe)
            applied == IF pc = "crashed" THEN nread - 1 ELSE nread
            eff == EffectsOf(SelectSeq(SubSeq(child.wrote, 1, applied), KnownLine))
            closing == IF pc \in {"finish", "returned"} THEN 2 ELSE 0
        IN  /\ wipe_cache = eff.wipe
            /\ retry_update = eff.retry
            /\ Len(ui) = UiBeforeLoop + Len(eff.ui) + closing
            /\ TailPart(ui, Len(eff.ui), closing) = eff.ui
            /\ \E uncrypt \in {0, 1} :
                  /\ uncrypt = 1 => pc = "returned"
                  /\ Len(log_buffer) = LogBeforeLoop[zip] + Len(eff.log) + uncrypt
                  /\ TailPart(log_buffer, Len(eff.log), uncrypt) = eff.log
            /\ child.state = "reaped" =>
                  result = TerminalStatus(eff.retry, child.status)

\* an unknown command and an empty line were read and the child ended with
\* a clean exit: the result is SUCCESS and nothing was shown or logged
C21_Witness ==
    /\ pc = "cleanup"
    /\ child.state = "reaped"
    /\ child.wrote = << <<"frobnicate", NL>>, <<NL>> >>
    /\ result = INSTALL_SUCCESS
    /\ Len(ui) = UiBeforeLoop
    /\ ~wipe_cache /\ ~retry_update

\* the calls of SetEnableReboot so far, in their order
RebootCalls == SelectSeq(ui, LAMBDA call : call[1] = "SetEnableReboot")

\* the driver came to the child supervisor: try_update_binary was called
SupervisorReached == \E k \in 1..Len(steps) : StepNames(k) = "update_binary_command"

\* the enable_reboot lines among the lines read so far
EnableRebootRead ==
    LET nread == Len(child.wrote) - Len(pipe)
    IN  Len(SelectSeq(SubSeq(child.wrote, 1, nread),
                      LAMBDA l : CommandOf(l) = <<"enable_reboot">>))

\* C24: on a path that ends before the child supervisor the reboot setting
\* is not touched; otherwise reboot is disabled first, enabled once for
\* every enable_reboot line read and for nothing else while the supervisor
\* runs, and enabled again when the supervisor has returned, whatever its
\* result.
C24_RebootDisabledAround ==
    LET calls == RebootCalls
    IN  /\ ~SupervisorReached => calls = <<>>
        /\ SupervisorReached =>
              /\ Len(calls) = 1 + EnableRebootRead + (IF DriverDone THEN 1 ELSE 0)
              /\ calls[1] = <<"SetEnableReboot", FALSE>>
              /\ \A k \in 2..Len(calls) : calls[k] = <<"SetEnableReboot", TRUE>>

\* the gate rejected the package: reboot was disabled and enabled again
C24_Witness ==
    /\ pc = "returned"
    /\ \E k \in 1..Len(steps) : steps[k] = <<"update_binary_command", FALSE>>
    /\ RebootCalls = << <<"SetEnableReboot", FALSE>>, <<"SetEnableReboot", TRUE>> >>

\* a wipe_cache line is among the first n lines the child wrote
WipeAmong(n) ==
    \E k \in 1..n : CommandOf(child.wrote[k]) = <<"wipe_cache">>

\* C25: *wipe_cache keeps the caller's value until a fork has succeeded:
\* no step that ends before a successful fork changes it, also when the
\* driver returns before the fork or with a failed fork; it is false right
\* after the fork, then true exactly when a wipe_cache line was read, and
\* so at the return exactly when the child wrote one.
C25_WipeCacheOnlyAfterFork ==
    /\ [][~Forked' => wipe_cache' = wipe_cache]_vars
    /\ [](Forked =>
             /\ wipe_cache = WipeAmong(Len(child.wrote) - Len(pipe))
             /\ DriverDone => wipe_cache = WipeAmong(Len(child.wrote)))

\* the caller's true is still there after the fork failed
C25_Witness ==
    /\ pc = "returned"
    /\ \E k \in 1..Len(steps) : steps[k] = <<"fork", FALSE>>
    /\ wipe_cache

\* try_update_binary has returned in the parent
SupervisorReturned == SupervisorReached /\ pc \in {"cleanup", "finish", "returned"}

\* C26: the parent closes each end of the status pipe at most once and has
\* closed both exactly once when try_update_binary has returned, after a
\* failed command builder and a failed fork as well; after a successful
\* fork the write end is closed before a line is read and the read end only
\* at the end of the stream, when the child is reaped; the child closes the
\* read end, and only that, before exec.
C26_PipeEndsClosedOnce ==
    /\ res.r_closes <= 1 /\ res.w_closes <= 1
    /\ ~SupervisorReached => res.r_closes = 0 /\ res.w_closes = 0
    /\ SupervisorReturned =>
          /\ res.r_closes = 1 /\ res.w_closes = 1
          /\ res.pipe_r = "closed" /\ res.pipe_w = "closed"
    /\ Forked =>
          /\ res.w_closes = 1 /\ res.pipe_w = "closed"
          /\ res.r_closes = 1 => pipe = <<>> /\ child.state = "reaped"
          /\ pc \in {"reading", "crashed"} => res.r_closes = 0 /\ res.pipe_r = "open"
    /\ child.closed = (IF child.state \in {"none", "forked"} THEN <<>> ELSE <<"read">>)

\* the stream was read to its end and both ends are closed, once each
C26_Witness ==
    /\ pc = "cleanup"
    /\ child.state = "reaped"
    /\ Len(child.wrote) = MaxLines
    /\ child.closed = <<"read">>
    /\ res.r_closes = 1 /\ res.w_closes = 1

(***************************************************************************)
(* Properties of the verifier.                                             *)
(***************************************************************************)
\* C9: when the slot is not yet marked successful (FALSE) and
\* ro.boot.veritymode is anything but exactly "enforcing", the verifier exits
\* with -1 and neither opens nor reads a block device nor calls
\* markBootSuccessful.
C9_NotEnforcingFails ==
    (ver.is_successful = "FALSE" /\ ver.verity_mode # "enforcing") =>
        /\ ver.pc \in {"start", "verity", "exited"}
        /\ ver.exited => ver.code = -1
        /\ ver.opened = <<>>
        /\ ver.reads = <<>>
        /\ ver.marks = 0
        /\ ver.verified = "none"

\* the mode ENFORCING, in capitals, made the verifier exit with -1
C9_Witness ==
    /\ ver.is_successful = "FALSE"
    /\ ver.verity_mode = "ENFORCING"
    /\ ver.exited
    /\ ver.from = "verity"
    /\ ver.code = -1
    /\ ver.marks = 0

RECURSIVE PairStarts(_, _)
\* the first blocks of the pairs of a split range string, from piece k on
PairStarts(ranges, k) ==
    IF k + 1 > Len(ranges) THEN <<>>
    ELSE <<ParseUint(ranges[k]).val>> \o PairStarts(ranges, k + 2)

RECURSIVE CareMapRanges(_, _, _)
\* the ranges a care map asks for, device after device: the device and the
\* first block of each
CareMapRanges(lines, k, suffix) ==
    IF k + 1 > Len(lines) THEN <<>>
    ELSE LET starts == PairStarts(Split(lines[k + 1], ","), 2)
         IN  [n \in 1..Len(starts) |->
                 [device |-> lines[k] \o <<suffix>>, start |-> starts[n]]]
             \o CareMapRanges(lines, k + 2, suffix)

\* every range the care map asks for was read, in order, and no read failed
AllRangesRead ==
    LET wanted == IF ver.care_map = "ok"
                  THEN CareMapRanges(Split(Trim(ver.care_map_text), NL), 1, ver.slot_suffix)
                  ELSE <<>>
    IN  /\ Len(ver.reads) = Len(wanted)
        /\ \A n \in 1..Len(wanted) :
              /\ ver.reads[n].ok
              /\ ver.reads[n].device = wanted[n].device
              /\ ver.reads[n].offset = wanted[n].start * BLOCKSIZE

\* C10: markBootSuccessful is called at most once and only after
\* verify_image returned true, that is after every range of every pair of
\* the care map was read without a failure; when verify_image fails the
\* verifier exits with -1 and the slot is never marked; after the marking
\* the verifier exits with -1 when success=false was reported, with 0
\* otherwise.
C10_MarkOnlyAfterVerify ==
    /\ ver.marks <= 1
    /\ ver.marks = 1 =>
          /\ ver.verified = "true"
          /\ ver.care_map # "unreadable"
          /\ AllRangesRead
          /\ ver.exited
          /\ ver.code = (IF ver.mark_success = "false" THEN -1 ELSE 0)
    /\ ver.verified = "false" => ver.exited /\ ver.code = -1 /\ ver.marks = 0
    /\ (\E n \in 1..Len(ver.reads) : ~ver.reads[n].ok) => ver.marks = 0 /\ ver.code = -1

\* the slot was marked after the three ranges of two devices were read
C10_Witness ==
    /\ ver.marks = 1
    /\ ver.mark_success = "true"
    /\ ver.code = 0
    /\ Len(ver.reads) = 3
    /\ Len(ver.opened) = 2

RECURSIVE PairsOf(_, _)
\* the pairs of a split range string, from piece k on: first block and the
\* block after the last
PairsOf(ranges, k) ==
    IF k + 1 > Len(ranges) THEN <<>>
    ELSE << <<ParseUint(ranges[k]).val, ParseUint(ranges[k + 1]).val>> >>
         \o PairsOf(ranges, k + 2)

RECURSIVE CareMapIntervals(_, _, _)
\* the block intervals a care map asks for, device after device and, for
\* one device, in the order of its range string
CareMapIntervals(lines, k, suffix) ==
    IF k + 1 > Len(lines) THEN <<>>
    ELSE LET pairs == PairsOf(Split(lines[k + 1], ","), 2)
         IN  [n \in 1..Len(pairs) |->
                 [device |-> lines[k] \o <<suffix>>, start |-> pairs[n][1],
                  end |-> pairs[n][2]]]
             \o CareMapIntervals(lines, k + 2, suffix)

\* the intervals of the care map of this run
Wanted ==
    IF ver.care_map = "ok"
    THEN CareMapIntervals(Split(Trim(ver.care_map_text), NL), 1, ver.slot_suffix)
    ELSE <<>>

\* read n asks for the bytes [start*4096, end*4096) of the device of w: it
\* starts at byte start*4096 and its size is that of end - start blocks
ReadsInterval(rd, w) ==
    /\ rd.device = w.device
    /\ rd.offset = w.start * BLOCKSIZE
    /\ rd.size % BLOCKSIZE = 0
    /\ rd.size \div BLOCKSIZE = w.end - w.start

\* C11: in every run that reaches the block scanning the reads are, one
\* for one and in order, the byte intervals [start*4096, end*4096) of the
\* range pairs of the care map, the first device before the second, and
\* nothing else is read; when verify_image returns true all of them were
\* read.
C11_ReadsAreTheIntervals ==
    ver.reads # <<>> =>
        LET w == Wanted
        IN  /\ Len(ver.reads) <= Len(w)
            /\ \A n \in 1..Len(ver.reads) : ReadsInterval(ver.reads[n], w[n])
            /\ ver.verified = "true" => Len(ver.reads) = Len(w)

\* the same for care maps whose ranges all are shorter than WrapBlocks blocks
C11_ReadsAreTheIntervalsBelowWrap ==
    ver.reads # <<>> =>
        LET w == Wanted
        IN  (\A n \in 1..Len(w) : w[n].end - w[n].start < WrapBlocks)
                => /\ Len(ver.reads) <= Len(w)
                   /\ \A n \in 1..Len(ver.reads) : ReadsInterval(ver.reads[n], w[n])
                   /\ ver.verified = "true" => Len(ver.reads) = Len(w)

\* C12: when isSlotMarkedSuccessful returned TRUE the verifier has read no
\* verity mode, opened no care map and no block device, read no block, not
\* called markBootSuccessful, and has returned 0.
C12_MarkedSlotDoesNothing ==
    (ver.queried /\ ver.is_successful = "TRUE") =>
        /\ ver.exited /\ ver.code = 0 /\ ver.from = "start"
        /\ ~ver.mode_read
        /\ ~ver.care_map_tried
        /\ ver.opened = <<>>
        /\ ver.reads = <<>>
        /\ ver.verified = "none"
        /\ ver.marks = 0

\* a run on a slot already marked has ended with 0 although the mode was
\* not enforcing
C12_Witness ==
    /\ ver.queried
    /\ ver.is_successful = "TRUE"
    /\ ver.verity_mode = "eio"
    /\ ver.exited
    /\ ver.code = 0

\* C16: every read asks for exactly (end - start) * 4096 bytes of its
\* range pair, also when end - start is WrapBlocks blocks or more.
C16_SizeDoesNotWrap ==
    ver.reads # <<>> =>
        LET w == Wanted
        IN  \A n \in 1..Len(ver.reads) :
                n <= Len(w) => ver.reads[n].size \div BLOCKSIZE = w[n].end - w[n].start

\* C17: when isSlotMarkedSuccessful returned INVALID the verifier goes on as
\* for FALSE: it does not return before it has read the verity mode, and it
\* returns 0 only after verify_image returned true.
C17_InvalidIsVerified ==
    (ver.queried /\ ver.is_successful = "INVALID" /\ ver.exited) =>
        /\ ver.mode_read \/ ver.from = "verity"
        /\ ver.code = 0 => ver.verified = "true"

\* C22: when the slot is FALSE, the mode enforcing and the care map cannot
\* be opened, verify_image returns true with no block device opened and no
\* block read, markBootSuccessful is called, and the verifier returns 0
\* when the marking succeeded (-1 when it did not).
C22_MissingCareMapPasses ==
    (ver.care_map_tried /\ ver.care_map = "missing") =>
        /\ ver.is_successful = "FALSE" /\ ver.verity_mode = "enforcing"
        /\ ver.verified = "true"
        /\ ver.opened = <<>>
        /\ ver.reads = <<>>
        /\ ver.pc \in {"mark", "exited"}
        /\ ver.exited =>
              /\ ver.marks = 1
              /\ ver.from = "mark"
              /\ ver.code = (IF ver.mark_success = "true" THEN 0 ELSE -1)

\* without a care map the slot was marked and the verifier returned 0
C22_Witness ==
    /\ ver.care_map = "missing"
    /\ ver.care_map_tried
    /\ ver.exited
    /\ ver.marks = 1
    /\ ver.code = 0

\* a text that is no unsigned number
Unparsable(piece) == ~ParseUint(piece).ok

\* a range string as section 4.7 excludes it: the count unparsable, zero,
\* odd or not the number of integers after it, or a pair with a bound that
\* is no number or with start >= end
RangeSpecMalformed(range_str) ==
    LET pieces == Split(range_str, ",")
        count == ParseUint(pieces[1])
    IN  \/ ~count.ok
        \/ count.val = 0
        \/ count.val % 2 # 0
        \/ count.val # Len(pieces) - 1
        \/ \E k \in 1..((Len(pieces) - 1) \div 2) :
              \/ Unparsable(pieces[2 * k])
              \/ Unparsable(pieces[2 * k + 1])
              \/ ParseUint(pieces[2 * k]).val >= ParseUint(pieces[2 * k + 1]).val

\* the lines of the care map file, trimmed
CareMapLines == Split(Trim(ver.care_map_text), NL)

LineCountWrong == Len(CareMapLines) \notin {2, 4}

CareMapMalformed ==
    LET lines == CareMapLines
    IN  \/ Len(lines) \notin {2, 4}
        \/ \E k \in 1..(Len(lines) \div 2) : RangeSpecMalformed(lines[2 * k])

\* C23: once verify_image has read a care map that is malformed, the slot
\* is never marked and the verifier returns -1; with a line count other
\* than 2 or 4 no block device is ever opened; with a malformed range
\* string only ranges before the first invalid pair are read.
C23_MalformedCareMapFails ==
    (ver.care_map_tried /\ ver.care_map = "ok") =>
        LET malformed == CareMapMalformed
        IN  /\ malformed =>
                  /\ ver.marks = 0
                  /\ ver.verified # "true"
                  /\ ver.pc # "mark"
                  /\ ver.exited => ver.code = -1 /\ ver.verified = "false"
            /\ LineCountWrong => ver.exited /\ ver.opened = <<>> /\ ver.reads = <<>>

\* the second range of "4,0,1,1,0" was rejected after the first was read
C23_Witness ==
    /\ ver.care_map = "ok"
    /\ CareMapLines = <<<<SYSTEM>>, NumbersText(<<4, 0, 1, 1, 0>>)>>
    /\ ver.exited
    /\ ver.code = -1
    /\ ver.marks = 0
    /\ Len(ver.reads) = 1
    /\ ver.reads[1].ok

====
